---- MODULE Spec2Model ----
(***************************************************************************)
(* A model of opencc-go: dictionary entries, the Lexicon, its iterator and  *)
(* its text format, the sorted-array dictionary (TextDict) and its         *)
(* serialization, the dictionary group (DictGroup), the Segments value,    *)
(* forward maximum matching segmentation, the conversion chain, the        *)
(* Converter, called by one goroutine or by several, and the string        *)
(* functions of the utf8 package.                                          *)
(*                                                                         *)
(* Strings are Go strings: finite sequences of bytes (0..255).  Go slice   *)
(* indexes are 0-based and kept as such; a TLA+ sequence s holds Go's s[i] *)
(* at s[i+1].                                                              *)
(***************************************************************************)
EXTENDS Integers, Sequences, FiniteSets, TLC

VARIABLES
    dict,       \* SpecDict: the dictionary under lookup (TextDict or DictGroup)
    word,       \* SpecDict: the argument of the last lookup
    op,         \* SpecDict: the last operation called on dict
    result,     \* the DictEntry last returned (Nil for nil); ReplaceAll: its result
    converted,  \* SpecDict: the string Conversion.Convert returned
    segmenter,  \* the Segmentation: [type, dict]
    text,       \* the input text of Segment / Convert
    position,   \* Segment: the cursor (a 0-based byte offset)
    segments,   \* the Segments under construction / being converted
    pc,         \* position in Segment / Converter.Convert
    chain,      \* Converter: the ConversionChain, a sequence of dictionaries
    stepIdx,    \* ConversionChain.Convert: the number of steps applied so far
    segmented,  \* Converter: the Segments the segmenter returned
    output,     \* Converter.Convert: the returned string
    entries,    \* Lexicon.entries of the Lexicon being built, sorted, inspected
    reader,     \* ParseLexicon: the source, [data, ending]
    err,        \* ParseLexicon / loadTextDict: the error returned
    matches,    \* the entries the last MatchAllPrefixes returned
    count,      \* the integer the last operation returned
    flag,       \* the boolean the last operation returned
    dupkey,     \* IsUnique: the string its argument points to
    calls,      \* SpecConc: the frame of each running Converter.Convert
    held,       \* SpecEntry: the []string the caller holds, [data, shared]
    other,      \* SpecEntry: the entry the last comparison was made with
    added,      \* SpecSegments: the calls of AddManaged / AddUnmanaged so far
    input,      \* SpecLength: the string handed to ConvertWithLength
    length,     \* SpecLength: the length handed to ConvertWithLength
    it,         \* SpecIter: the iterator, [kind, index]
    visited,    \* SpecIter: the calls of Value() so far, [index, value]
    writer,     \* SpecSerial: the bytes SerializeToWriter has written
    fromStr,    \* SpecReplace: the argument from of ReplaceAll
    toStr       \* SpecReplace: the argument to of ReplaceAll

extVars == <<held, other, added, input, length, it, visited, writer,
             fromStr, toStr>>

vars == <<dict, word, op, result, converted, segmenter, text, position,
          segments, pc, chain, stepIdx, segmented, output,
          entries, reader, err, matches, count, flag, dupkey, calls, extVars>>

dictVars == <<dict, word, op, result, converted>>
segVars  == <<segmenter, text, position, segments, pc>>
convVars == <<chain, stepIdx, segmented, output>>
lexVars  == <<entries, reader, err, flag, dupkey>>
auxVars  == <<lexVars, matches, count, calls, extVars>>

(***************************************************************************)
(* Bounds of the model.                                                    *)
(***************************************************************************)
MaxWordLen == 3     \* longest word looked up in a dictionary
MaxLexicon == 3     \* most entries in one TextDict's lexicon
MaxGroup   == 2     \* most member dictionaries in a DictGroup
MaxTextLen == 4     \* longest text handed to Segment
MaxConvLen == 3     \* longest text handed to Converter.Convert
MaxChain   == 2     \* most steps in a ConversionChain
MaxSegs    == 2     \* most segments handed to ConversionChain.Convert

(***************************************************************************)
(* Go strings.                                                             *)
(***************************************************************************)
Min(a, b) == IF a < b THEN a ELSE b

\* All strings over the byte set B of length at most n.
StringsOver(B, n) == UNION {[1..k -> B] : k \in 0..n}

\* Go's s[from:to] (0-based, to exclusive); the caller keeps it in range.
Slice(s, from, to) == SubSeq(s, from + 1, to)

\* Go's built-in a < b on strings: byte-lexicographic order.
RECURSIVE StrLess(_, _)
StrLess(a, b) ==
    IF b = <<>> THEN FALSE
    ELSE IF a = <<>> THEN TRUE
    ELSE IF a[1] # b[1] THEN a[1] < b[1]
    ELSE StrLess(Tail(a), Tail(b))

\* Go's a >= b on strings.
StrGE(a, b) == ~StrLess(a, b)

IsPrefix(p, s) == Len(p) <= Len(s) /\ SubSeq(s, 1, Len(p)) = p

(***************************************************************************)
(* DictEntry and its three representations.                                *)
(***************************************************************************)
\* The nil DictEntry.
Nil == [type |-> "nil", key |-> <<>>, value |-> <<>>, values |-> <<>>]

NewNoValueDictEntry(key) ==
    [type |-> "NoValue", key |-> key, value |-> <<>>, values |-> <<>>]

NewStrSingleValueDictEntry(key, value) ==
    [type |-> "StrSingleValue", key |-> key, value |-> value, values |-> <<>>]

\* All three branches of the constructor store the values as given.
NewStrMultiValueDictEntry(key, values) ==
    [type |-> "StrMultiValue", key |-> key, value |-> <<>>, values |-> values]

Key(e) == e.key

KeyLength(e) == Len(e.key)

Values(e) ==
    CASE e.type = "NoValue"        -> <<>>
      [] e.type = "StrSingleValue" -> <<e.value>>
      [] e.type = "StrMultiValue"  -> e.values

NumValues(e) ==
    CASE e.type = "NoValue"        -> 0
      [] e.type = "StrSingleValue" -> 1
      [] e.type = "StrMultiValue"  -> Len(e.values)

\* A slip in StrMultiValueDictEntry.GetDefault: the last value, not the first.
GetDefaultLast(e) ==
    CASE e.type = "NoValue"        -> e.key
      [] e.type = "StrSingleValue" -> e.value
      [] e.type = "StrMultiValue"  ->
            IF Len(e.values) > 0 THEN e.values[Len(e.values)] ELSE e.key

GetDefault(e) ==
    CASE e.type = "NoValue"        -> e.key
      [] e.type = "StrSingleValue" -> e.value
      [] e.type = "StrMultiValue"  ->
            IF Len(e.values) > 0 THEN e.values[1] ELSE e.key

(***************************************************************************)
(* Lexicon: a sequence of entries.                                         *)
(***************************************************************************)
LexiconLen(l) == Len(l)

LexiconAt(l, index) ==
    IF index < 0 \/ index >= Len(l) THEN Nil ELSE l[index + 1]

LexiconIsSorted(l) ==
    \A i \in 2..Len(l) : ~StrLess(Key(l[i]), Key(l[i - 1]))

\* The arrangements of the set S in a sequence.
RECURSIVE Arrangements(_)
Arrangements(S) ==
    IF S = {} THEN {<<>>}
    ELSE UNION {{<<x>> \o p : p \in Arrangements(S \ {x})} : x \in S}

\* The permutations of 1..n.
Perms(n) == Arrangements(1..n)

\* A slip in Lexicon.Sort: the less function compares with > and not <.
LexiconSortDescending(l) ==
    {s \in {[i \in 1..Len(l) |-> l[p[i]]] : p \in Perms(Len(l))} :
        \A i \in 2..Len(s) : ~StrLess(Key(s[i - 1]), Key(s[i]))}

\* Lexicon.Sort: sort.Slice by key.  sort.Slice promises a sorted permutation
\* and no more (it is not stable), so this is the set of its possible results.
LexiconSort(l) ==
    {s \in {[i \in 1..Len(l) |-> l[p[i]]] : p \in Perms(Len(l))} :
        LexiconIsSorted(s)}

(***************************************************************************)
(* TextDict: a lexicon and its cached maximum key length.                  *)
(***************************************************************************)
RECURSIVE ScanMaxLen(_, _, _)
ScanMaxLen(lexicon, i, maxLen) ==
    IF i >= LexiconLen(lexicon) THEN maxLen
    ELSE LET entry == LexiconAt(lexicon, i)
         IN  ScanMaxLen(lexicon, i + 1,
                 IF KeyLength(entry) > maxLen THEN KeyLength(entry) ELSE maxLen)

NewTextDict(lexicon) ==
    [type |-> "TextDict", maxLength |-> ScanMaxLen(lexicon, 0, 0),
     lexicon |-> lexicon, dicts |-> <<>>]

\* sort.Search(n, func(i) { return lexicon.At(i).Key() >= w }): the binary
\* search of the standard library, from the interval [i, j).
RECURSIVE SortSearch(_, _, _, _)
SortSearch(lexicon, w, i, j) ==
    IF i < j
    THEN LET h == (i + j) \div 2
         IN  IF ~StrGE(Key(LexiconAt(lexicon, h)), w)
             THEN SortSearch(lexicon, w, h + 1, j)
             ELSE SortSearch(lexicon, w, i, h)
    ELSE i

\* A slip in TextDict.Match: the entry found by the search is returned
\* without comparing its key with the word.
TextDictMatchNoKeyCheck(d, w) ==
    LET idx == SortSearch(d.lexicon, w, 0, LexiconLen(d.lexicon))
    IN  IF idx < LexiconLen(d.lexicon)
        THEN LexiconAt(d.lexicon, idx)
        ELSE Nil

TextDictMatch(d, w) ==
    LET idx == SortSearch(d.lexicon, w, 0, LexiconLen(d.lexicon))
    IN  IF idx < LexiconLen(d.lexicon) /\ Key(LexiconAt(d.lexicon, idx)) = w
        THEN LexiconAt(d.lexicon, idx)
        ELSE Nil

\* The loop of TextDict.MatchPrefix, from candidate length l down to 1.
RECURSIVE MatchPrefixFrom(_, _, _)
MatchPrefixFrom(d, w, l) ==
    IF l > 0
    THEN LET prefix == Slice(w, 0, l)
             idx    == SortSearch(d.lexicon, prefix, 0, LexiconLen(d.lexicon))
         IN  IF idx < LexiconLen(d.lexicon)
                /\ Key(LexiconAt(d.lexicon, idx)) = prefix
             THEN LexiconAt(d.lexicon, idx)
             ELSE MatchPrefixFrom(d, w, l - 1)
    ELSE Nil

\* The loop of MatchPrefix run the other way, from length l up to maxLen:
\* the first hit is then the shortest prefix.
RECURSIVE MatchPrefixUpFrom(_, _, _, _)
MatchPrefixUpFrom(d, w, l, maxLen) ==
    IF l <= maxLen
    THEN LET prefix == Slice(w, 0, l)
             idx    == SortSearch(d.lexicon, prefix, 0, LexiconLen(d.lexicon))
         IN  IF idx < LexiconLen(d.lexicon)
                /\ Key(LexiconAt(d.lexicon, idx)) = prefix
             THEN LexiconAt(d.lexicon, idx)
             ELSE MatchPrefixUpFrom(d, w, l + 1, maxLen)
    ELSE Nil

\* A slip in TextDict.MatchPrefix: shortest prefix first.
TextDictMatchPrefixShortest(d, w) ==
    MatchPrefixUpFrom(d, w, 1, Min(Len(w), d.maxLength))

TextDictMatchPrefix(d, w) ==
    MatchPrefixFrom(d, w, Min(Len(w), d.maxLength))

TextDictKeyMaxLength(d) == d.maxLength

(***************************************************************************)
(* DictGroup: member dictionaries in priority order.  A group reaches its  *)
(* members through the Dict interface only; the members here are TextDicts *)
(* (a group nested in a group is not modelled).                            *)
(***************************************************************************)
NewDictGroup(dicts) ==
    [type |-> "DictGroup", maxLength |-> 0, lexicon |-> <<>>, dicts |-> dicts]

\* The loop of DictGroup.Match over members i, i+1, ... (0-based).
RECURSIVE GroupMatchFrom(_, _, _)
GroupMatchFrom(g, w, i) ==
    IF i >= Len(g.dicts) THEN Nil
    ELSE LET entry == TextDictMatch(g.dicts[i + 1], w)
         IN  IF entry # Nil THEN entry ELSE GroupMatchFrom(g, w, i + 1)

\* The same loop with a later member overwriting an earlier one's match.
RECURSIVE GroupMatchLastFrom(_, _, _, _)
GroupMatchLastFrom(g, w, i, found) ==
    IF i >= Len(g.dicts) THEN found
    ELSE LET entry == TextDictMatch(g.dicts[i + 1], w)
         IN  GroupMatchLastFrom(g, w, i + 1, IF entry # Nil THEN entry ELSE found)

\* A slip in DictGroup.Match: no early return, so the last member wins.
DictGroupMatchLast(g, w) == GroupMatchLastFrom(g, w, 0, Nil)

DictGroupMatch(g, w) == GroupMatchFrom(g, w, 0)

\* The loop of DictGroup.MatchPrefix with its running best entry.
RECURSIVE GroupMatchPrefixFrom(_, _, _, _, _)
GroupMatchPrefixFrom(g, w, i, bestEntry, bestLen) ==
    IF i >= Len(g.dicts) THEN bestEntry
    ELSE LET entry == TextDictMatchPrefix(g.dicts[i + 1], w)
         IN  IF entry # Nil /\ KeyLength(entry) > bestLen
             THEN GroupMatchPrefixFrom(g, w, i + 1, entry, KeyLength(entry))
             ELSE GroupMatchPrefixFrom(g, w, i + 1, bestEntry, bestLen)

\* The same loop comparing with >= : on a tie the later member wins.
RECURSIVE GroupMatchPrefixGEFrom(_, _, _, _, _)
GroupMatchPrefixGEFrom(g, w, i, bestEntry, bestLen) ==
    IF i >= Len(g.dicts) THEN bestEntry
    ELSE LET entry == TextDictMatchPrefix(g.dicts[i + 1], w)
         IN  IF entry # Nil /\ KeyLength(entry) >= bestLen
             THEN GroupMatchPrefixGEFrom(g, w, i + 1, entry, KeyLength(entry))
             ELSE GroupMatchPrefixGEFrom(g, w, i + 1, bestEntry, bestLen)

\* A slip in DictGroup.MatchPrefix: >= instead of >.
DictGroupMatchPrefixGE(g, w) == GroupMatchPrefixGEFrom(g, w, 0, Nil, 0)

DictGroupMatchPrefix(g, w) == GroupMatchPrefixFrom(g, w, 0, Nil, 0)

RECURSIVE GroupMaxLenFrom(_, _, _)
GroupMaxLenFrom(g, i, maxLen) ==
    IF i >= Len(g.dicts) THEN maxLen
    ELSE LET l == TextDictKeyMaxLength(g.dicts[i + 1])
         IN  GroupMaxLenFrom(g, i + 1, IF l > maxLen THEN l ELSE maxLen)

\* A slip in DictGroup.KeyMaxLength: the first member's answer only.
DictGroupKeyMaxLengthFirst(g) ==
    IF Len(g.dicts) = 0 THEN 0 ELSE TextDictKeyMaxLength(g.dicts[1])

DictGroupKeyMaxLength(g) == GroupMaxLenFrom(g, 0, 0)

(***************************************************************************)
(* The Dict interface: dynamic dispatch on the implementing type.          *)
(***************************************************************************)
DictMatch(d, w) ==
    IF d.type = "DictGroup" THEN DictGroupMatch(d, w) ELSE TextDictMatch(d, w)

DictMatchPrefix(d, w) ==
    IF d.type = "DictGroup" THEN DictGroupMatchPrefix(d, w)
    ELSE TextDictMatchPrefix(d, w)

DictKeyMaxLength(d) ==
    IF d.type = "DictGroup" THEN DictGroupKeyMaxLength(d)
    ELSE TextDictKeyMaxLength(d)

(***************************************************************************)
(* Segments: the managed and unmanaged strings and the index of positions. *)
(* An unmanaged pointer refers to a string nothing writes after it is      *)
(* added, so it is held as the string it points to.                        *)
(***************************************************************************)
NewSegments == [managed |-> <<>>, unmanaged |-> <<>>, indexes |-> <<>>]

AddManaged(s, str) ==
    [s EXCEPT !.indexes = Append(@, [source |-> Len(s.managed), managed |-> TRUE]),
              !.managed = Append(@, str)]

\* A slip in AddUnmanaged: the string is stored as an owned one.
AddUnmanagedOwned(s, str) ==
    [s EXCEPT !.indexes = Append(@, [source |-> Len(s.managed), managed |-> TRUE]),
              !.managed = Append(@, str)]

AddUnmanaged(s, str) ==
    [s EXCEPT !.indexes = Append(@, [source |-> Len(s.unmanaged), managed |-> FALSE]),
              !.unmanaged = Append(@, str)]

SegmentsAt(s, pos) ==
    IF pos < 0 \/ pos >= Len(s.indexes) THEN <<>>
    ELSE LET idx == s.indexes[pos + 1]
         IN  IF idx.managed THEN s.managed[idx.source + 1]
             ELSE s.unmanaged[idx.source + 1]

SegmentsLength(s) == Len(s.indexes)

RECURSIVE ToStringFrom(_, _)
ToStringFrom(s, i) ==
    IF i < SegmentsLength(s) THEN SegmentsAt(s, i) \o ToStringFrom(s, i + 1)
    ELSE <<>>

\* A slip in Segments.ToString: the loop starts at 1 and drops segment 0.
SegmentsToStringSkipFirst(s) == ToStringFrom(s, 1)

SegmentsToString(s) == ToStringFrom(s, 0)

(***************************************************************************)
(* Segmentation.                                                           *)
(***************************************************************************)
NewMaxMatchSegmentation(d) == [type |-> "mmseg", dict |-> d]

NewCharactersSegmentation == [type |-> "chars", dict |-> NewDictGroup(<<>>)]

\* The loop of findLongestMatch from candidate length l down to 1.
RECURSIVE LongestMatchFrom(_, _, _, _)
LongestMatchFrom(d, txt, start, l) ==
    IF l > 0
    THEN IF start + l > Len(txt)
         THEN LongestMatchFrom(d, txt, start, l - 1)
         ELSE LET match == DictMatch(d, Slice(txt, start, start + l))
              IN  IF match # Nil THEN match
                  ELSE LongestMatchFrom(d, txt, start, l - 1)
    ELSE Nil

\* The loop of findLongestMatch run from length l up to maxLen.
RECURSIVE ShortestMatchFrom(_, _, _, _, _)
ShortestMatchFrom(d, txt, start, l, maxLen) ==
    IF l <= maxLen /\ start + l <= Len(txt)
    THEN LET match == DictMatch(d, Slice(txt, start, start + l))
         IN  IF match # Nil THEN match
             ELSE ShortestMatchFrom(d, txt, start, l + 1, maxLen)
    ELSE Nil

\* A slip in findLongestMatch: lengths tried from 1 up, first hit returned.
findShortestMatch(d, txt, start, maxLen) ==
    ShortestMatchFrom(d, txt, start, 1, maxLen)

\* MaxMatchSegmentation.findLongestMatch(text, start, maxLen) over s.dict = d.
findLongestMatch(d, txt, start, maxLen) ==
    LongestMatchFrom(d, txt, start, maxLen)

\* MaxMatchSegmentation.nextUTF8CharLength
nextUTF8CharLength(txt, pos) ==
    IF pos >= Len(txt) THEN 0
    ELSE LET b == txt[pos + 1]
         IN  CASE b < 128 -> 1
               [] b >= 128 /\ b < 224 -> 2
               [] b >= 224 /\ b < 240 -> 3
               [] b >= 240 /\ b < 248 -> 4
               [] OTHER -> 0

\* CharactersSegmentation.nextUTF8CharLength
charsNextUTF8CharLength(txt, pos) ==
    IF pos >= Len(txt) THEN 0
    ELSE LET b == txt[pos + 1]
         IN  CASE b < 128 -> 1
               [] b >= 128 /\ b < 224 -> 2
               [] b >= 224 /\ b < 240 -> 3
               [] b >= 240 /\ b < 248 -> 4
               [] OTHER -> 0

\* The length of the fallback segment: "if charLen == 0 { charLen = 1 }".
FallbackLen(charLen) == IF charLen = 0 THEN 1 ELSE charLen

(***************************************************************************)
(* Conversion: one conversion step over one dictionary.                    *)
(***************************************************************************)
\* A slip in Conversion.Convert: an unmatched phrase is dropped.
ConversionConvertDrop(d, phrase) ==
    IF Len(phrase) = 0 THEN phrase
    ELSE LET entry == DictMatch(d, phrase)
         IN  IF entry # Nil THEN GetDefault(entry) ELSE <<>>

\* Conversion.Convert(phrase) of the step whose dictionary is d.
ConversionConvert(d, phrase) ==
    IF Len(phrase) = 0 THEN phrase
    ELSE LET entry == DictMatch(d, phrase)
         IN  IF entry # Nil THEN GetDefault(entry) ELSE phrase

\* The loop of ConvertSegments: the iterator stands at position, Next()
\* advances it and Value() reads the segment there.
RECURSIVE ConvertSegmentsFrom(_, _, _, _)
ConvertSegmentsFrom(d, segs, pos, res) ==
    IF pos + 1 < SegmentsLength(segs)
    THEN ConvertSegmentsFrom(d, segs, pos + 1,
             AddManaged(res, ConversionConvert(d, SegmentsAt(segs, pos + 1))))
    ELSE res

\* A slip in Segments.Iterator: the iterator starts at 0, not at -1, so the
\* first Next() steps over the first segment.
ConvertSegmentsSkipFirst(d, segs) == ConvertSegmentsFrom(d, segs, 0, NewSegments)

\* Conversion.ConvertSegments(segments) of the step whose dictionary is d.
ConvertSegments(d, segs) == ConvertSegmentsFrom(d, segs, -1, NewSegments)

\* NewConversionChain(conversions): the steps, each held as its dictionary.
NewConversionChain(conversions) == conversions

(***************************************************************************)
(* The dictionaries of the model.  Member number tag of a group stores its *)
(* own entry for a key, so that the member an entry came from shows; the   *)
(* entries cover the three representations and 0, 1 and 2 values.          *)
(***************************************************************************)
KeyBytes == {97, 98}                                   \* "a", "b"

DictKeys == StringsOver(KeyBytes, 2)                   \* "", a, b, aa, ab, ...

MemberKeys == {<<>>, <<97>>, <<97, 98>>, <<98>>}       \* "", a, ab, b

Words == StringsOver(KeyBytes, MaxWordLen)

EntryOf(key, tag) ==
    IF Len(key) = 0 THEN NewStrSingleValueDictEntry(key, <<90, 48 + tag>>)
    ELSE IF key = <<97>> THEN NewStrSingleValueDictEntry(key, <<65, 48 + tag>>)
    ELSE IF Len(key) = 1 THEN
        IF tag = 1 THEN NewNoValueDictEntry(key)
        ELSE NewStrSingleValueDictEntry(key, <<66, 48 + tag>>)
    ELSE IF key[2] = 97 THEN
        NewStrMultiValueDictEntry(key, <<>>)
    ELSE IF key[1] = 97 THEN
        NewStrMultiValueDictEntry(key, << <<88, 48 + tag>>, <<89, 48 + tag>> >>)
    ELSE NewStrMultiValueDictEntry(key, << <<87, 48 + tag>> >>)

\* The entries of a key set, added to a new Lexicon in some order.
Added(keys, tag) ==
    LET S == {EntryOf(k, tag) : k \in keys}
    IN  CHOOSE l \in [1..Cardinality(S) -> S] : {l[i] : i \in DOMAIN l} = S

\* The dictionaries the loader builds from key sets: Add, Sort, NewTextDict.
TextDictsOver(keys, tag) ==
    UNION {{NewTextDict(l) : l \in LexiconSort(Added(S, tag))} :
              S \in {T \in SUBSET keys : Cardinality(T) <= MaxLexicon}}

\* All sequences of member dictionaries of length n, member i tagged i.
RECURSIVE MemberSeqs(_)
MemberSeqs(n) ==
    IF n = 0 THEN {<<>>}
    ELSE {Append(ms, d) : ms \in MemberSeqs(n - 1),
                          d \in TextDictsOver(MemberKeys, n)}

DictGroups == UNION {{NewDictGroup(ms) : ms \in MemberSeqs(n)} : n \in 0..MaxGroup}

Dicts == TextDictsOver(DictKeys, 1) \cup DictGroups

(***************************************************************************)
(* SpecDict: lookups on one constructed dictionary.                        *)
(***************************************************************************)
NoSeg == [type |-> "none", dict |-> NewDictGroup(<<>>)]

SegIdle ==
    /\ segmenter = NoSeg
    /\ text = <<>>
    /\ position = 0
    /\ segments = NewSegments
    /\ pc = "idle"

ConvIdle ==
    /\ chain = <<>>
    /\ stepIdx = 0
    /\ segmented = NewSegments
    /\ output = <<>>

DictIdle ==
    /\ dict = NewDictGroup(<<>>)
    /\ word = <<>>
    /\ op = "idle"
    /\ result = Nil
    /\ converted = <<>>

NoReader == [data |-> <<>>, pos |-> 0, ending |-> "EOF", file |-> "ok"]

LexIdle ==
    /\ entries = <<>>
    /\ reader = NoReader
    /\ err = "nil"
    /\ flag = FALSE
    /\ dupkey = <<>>

QueryIdle ==
    /\ matches = <<>>
    /\ count = 0

ConcIdle == calls = <<>>

\* A []string the caller holds: its elements, and whether it has the backing
\* array of the entry's values.
NoSlice == [data |-> <<>>, shared |-> FALSE]

EntryIdle ==
    /\ held = NoSlice
    /\ other = Nil

LengthIdle == input = <<>> /\ length = 0

NoIter == [kind |-> "none", index |-> 0]

IterIdle == it = NoIter /\ visited = <<>>

ReplaceIdle == fromStr = <<>> /\ toStr = <<>>

ExtIdle ==
    EntryIdle /\ added = <<>> /\ LengthIdle /\ IterIdle /\ writer = <<>> /\ ReplaceIdle

AuxIdle == LexIdle /\ QueryIdle /\ ConcIdle /\ ExtIdle

InitDict ==
    /\ dict \in Dicts
    /\ word \in Words
    /\ op = "new"
    /\ result = Nil
    /\ converted = <<>>
    /\ SegIdle
    /\ ConvIdle
    /\ AuxIdle

\* dict.Match(word)
Match ==
    /\ op' = "Match"
    /\ result' = DictMatch(dict, word)
    /\ converted' = <<>>
    /\ UNCHANGED <<dict, word, segVars, convVars, auxVars>>

\* dict.MatchPrefix(word)
MatchPrefix ==
    /\ op' = "MatchPrefix"
    /\ result' = DictMatchPrefix(dict, word)
    /\ converted' = <<>>
    /\ UNCHANGED <<dict, word, segVars, convVars, auxVars>>

\* NewConversion(dict).Convert(word)
ConvertPhrase ==
    /\ op' = "Convert"
    /\ result' = Nil
    /\ converted' = ConversionConvert(dict, word)
    /\ UNCHANGED <<dict, word, segVars, convVars, auxVars>>

NextDict == Match \/ MatchPrefix \/ ConvertPhrase

SpecDict == InitDict /\ [][NextDict]_vars

(***************************************************************************)
(* SpecSeg: one call of Segmentation.Segment(text), one loop iteration per *)
(* step.  pc is "call" before the call, "loop" at the loop head, "done"    *)
(* after the return and "panic" after a run-time panic (a slice expression *)
(* out of range).                                                          *)
(***************************************************************************)
TextBytes == {97, 128, 195, 228, 240, 248}

Texts == StringsOver(TextBytes, MaxTextLen)

SegKeys == {<<>>, <<97>>, <<97, 97>>, <<195, 128>>}    \* "", a, aa, U+00C0

SegDicts ==
    TextDictsOver(SegKeys, 1)
        \cup {NewDictGroup(<<NewTextDict(<<EntryOf(<<97>>, 1)>>),
                             NewTextDict(<<EntryOf(<<97>>, 2), EntryOf(<<97, 97>>, 2)>>)>>)}

Segmenters ==
    {NewMaxMatchSegmentation(d) : d \in SegDicts} \cup {NewCharactersSegmentation}

InitSeg ==
    /\ segmenter \in Segmenters
    /\ text \in Texts
    /\ position = 0
    /\ segments = NewSegments
    /\ pc = "call"
    /\ DictIdle
    /\ ConvIdle
    /\ AuxIdle

\* MaxMatchSegmentation.Segment up to the loop: the empty text returns at once.
SegmentEnter ==
    /\ pc = "call"
    /\ segmenter.type = "mmseg"
    /\ segments' = NewSegments
    /\ position' = 0
    /\ pc' = IF Len(text) = 0 THEN "done" ELSE "loop"
    /\ UNCHANGED <<segmenter, text, dictVars, convVars, auxVars>>

\* One iteration of the loop in which findLongestMatch finds an entry.
SegmentMatch ==
    /\ pc = "loop"
    /\ segmenter.type = "mmseg"
    /\ position < Len(text)
    /\ LET match == findLongestMatch(segmenter.dict, text, position,
                                     DictKeyMaxLength(segmenter.dict))
       IN  /\ match # Nil
           /\ segments' = AddUnmanaged(segments, Key(match))
           /\ position' = position + KeyLength(match)
    /\ UNCHANGED <<segmenter, text, pc, dictVars, convVars, auxVars>>

\* One iteration of the loop in which nothing matches: the next character.
\* text[position : position+charLen] panics when it ends past the text.
SegmentFallback ==
    /\ pc = "loop"
    /\ segmenter.type = "mmseg"
    /\ position < Len(text)
    /\ findLongestMatch(segmenter.dict, text, position,
                        DictKeyMaxLength(segmenter.dict)) = Nil
    /\ LET charLen == FallbackLen(nextUTF8CharLength(text, position))
       IN  IF position + charLen > Len(text)
           THEN /\ pc' = "panic"
                /\ UNCHANGED <<segments, position>>
           ELSE /\ segments' = AddManaged(segments,
                                   Slice(text, position, position + charLen))
                /\ position' = position + charLen
                /\ pc' = pc
    /\ UNCHANGED <<segmenter, text, dictVars, convVars, auxVars>>

\* CharactersSegmentation.Segment up to the loop.
CharsEnter ==
    /\ pc = "call"
    /\ segmenter.type = "chars"
    /\ segments' = NewSegments
    /\ position' = 0
    /\ pc' = "loop"
    /\ UNCHANGED <<segmenter, text, dictVars, convVars, auxVars>>

\* One iteration of the loop of CharactersSegmentation.Segment.
CharsStep ==
    /\ pc = "loop"
    /\ segmenter.type = "chars"
    /\ position < Len(text)
    /\ LET charLen == FallbackLen(charsNextUTF8CharLength(text, position))
       IN  IF position + charLen > Len(text)
           THEN /\ pc' = "panic"
                /\ UNCHANGED <<segments, position>>
           ELSE /\ segments' = AddManaged(segments,
                                   Slice(text, position, position + charLen))
                /\ position' = position + charLen
                /\ pc' = pc
    /\ UNCHANGED <<segmenter, text, dictVars, convVars, auxVars>>

\* The loop condition fails: Segment returns the segments.
SegmentReturn ==
    /\ pc = "loop"
    /\ ~(position < Len(text))
    /\ pc' = "done"
    /\ UNCHANGED <<segmenter, text, position, segments, dictVars, convVars, auxVars>>

NextSeg ==
    \/ SegmentEnter
    \/ SegmentMatch
    \/ SegmentFallback
    \/ CharsEnter
    \/ CharsStep
    \/ SegmentReturn

SpecSeg == InitSeg /\ [][NextSeg]_vars

(***************************************************************************)
(* Spec: one call of Converter.Convert(text).  pc is "convert" before the  *)
(* call, then follows Segment ("call", "loop", "done" or "panic"), then    *)
(* "chain" while ConversionChain.Convert runs, and "returned" at the end.  *)
(***************************************************************************)
\* {a -> b, aa -> [c, a], U+00C0 -> (no value)}
ConvDict1 ==
    NewTextDict(<<NewStrSingleValueDictEntry(<<97>>, <<98>>),
                  NewStrMultiValueDictEntry(<<97, 97>>, << <<99>>, <<97>> >>),
                  NewNoValueDictEntry(<<195, 128>>)>>)

\* {a -> aa, b -> c}
ConvDict2 ==
    NewTextDict(<<NewStrSingleValueDictEntry(<<97>>, <<97, 97>>),
                  NewStrSingleValueDictEntry(<<98>>, <<99>>)>>)

ConvDicts == {ConvDict1, ConvDict2}

Chains ==
    {NewConversionChain(c) : c \in UNION {[1..n -> ConvDicts] : n \in 0..MaxChain}}

ConvSegmenters ==
    {NewMaxMatchSegmentation(d) : d \in ConvDicts} \cup {NewCharactersSegmentation}

Init ==
    /\ segmenter \in ConvSegmenters
    /\ chain \in Chains
    /\ text \in StringsOver(TextBytes, MaxConvLen)
    /\ position = 0
    /\ segments = NewSegments
    /\ pc = "convert"
    /\ stepIdx = 0
    /\ segmented = NewSegments
    /\ output = <<>>
    /\ DictIdle
    /\ AuxIdle

\* Converter.Convert up to the call of Segment: the empty text is returned.
ConvertEnter ==
    /\ pc = "convert"
    /\ IF Len(text) = 0
       THEN pc' = "returned" /\ output' = text
       ELSE pc' = "call" /\ output' = output
    /\ UNCHANGED <<segmenter, text, position, segments, chain, stepIdx,
                   segmented, dictVars, auxVars>>

\* ConversionChain.Convert is entered with the segments: "result := segments".
ChainEnter ==
    /\ pc = "done"
    /\ pc' = "chain"
    /\ segmented' = segments
    /\ stepIdx' = 0
    /\ UNCHANGED <<segmenter, text, position, segments, chain, output, dictVars, auxVars>>

\* One iteration of the loop over the conversions of the chain.
ChainStep ==
    /\ pc = "chain"
    /\ stepIdx < Len(chain)
    /\ segments' = ConvertSegments(chain[stepIdx + 1], segments)
    /\ stepIdx' = stepIdx + 1
    /\ UNCHANGED <<segmenter, text, position, pc, chain, segmented, output,
                   dictVars, auxVars>>

\* The chain returns its result and Convert returns result.ToString().
ConvertReturn ==
    /\ pc = "chain"
    /\ stepIdx = Len(chain)
    /\ output' = SegmentsToString(segments)
    /\ pc' = "returned"
    /\ UNCHANGED <<segmenter, text, position, segments, chain, stepIdx,
                   segmented, dictVars, auxVars>>

Next ==
    \/ ConvertEnter
    \/ SegmentEnter
    \/ SegmentMatch
    \/ SegmentFallback
    \/ CharsEnter
    \/ CharsStep
    \/ SegmentReturn
    \/ ChainEnter
    \/ ChainStep
    \/ ConvertReturn

Spec == Init /\ [][Next]_vars

(***************************************************************************)
(* SpecChain: one call of ConversionChain.Convert on any Segments value, a *)
(* mix of managed and unmanaged segments, the empty string among them.     *)
(***************************************************************************)
SegStrings == {<<>>, <<97>>, <<98>>, <<97, 97>>}

\* The Segments values built by n calls of AddManaged / AddUnmanaged.
RECURSIVE SegmentsBuilt(_)
SegmentsBuilt(n) ==
    IF n = 0 THEN {NewSegments}
    ELSE LET prev == SegmentsBuilt(n - 1)
         IN  {AddManaged(sg, str) : sg \in prev, str \in SegStrings}
                 \cup {AddUnmanaged(sg, str) : sg \in prev, str \in SegStrings}

InitChain ==
    /\ chain \in Chains
    /\ segments \in UNION {SegmentsBuilt(n) : n \in 0..MaxSegs}
    /\ pc = "done"
    /\ segmenter = NoSeg
    /\ text = <<>>
    /\ position = 0
    /\ stepIdx = 0
    /\ segmented = NewSegments
    /\ output = <<>>
    /\ DictIdle
    /\ AuxIdle

NextChain == ChainEnter \/ ChainStep \/ ConvertReturn

SpecChain == InitChain /\ [][NextChain]_vars

(***************************************************************************)
(* What the lookups are to return, stated on the lexicon itself.           *)
(***************************************************************************)
LexiconIsUnique(l) ==
    \A i, j \in 1..Len(l) : i # j => Key(l[i]) # Key(l[j])

LexiconEntries(l) == {l[i] : i \in 1..Len(l)}

HasKey(l, w) == \E e \in LexiconEntries(l) : Key(e) = w

EntryWithKey(l, w) == CHOOSE e \in LexiconEntries(l) : Key(e) = w

\* The entries of l whose key is a prefix of w.
PrefixEntries(l, w) == {e \in LexiconEntries(l) : IsPrefix(Key(e), w)}

\* The same, the empty key left out.
NonEmptyPrefixEntries(l, w) == {e \in PrefixEntries(l, w) : Key(e) # <<>>}

IsLongestOf(e, S) == e \in S /\ \A f \in S : KeyLength(f) <= KeyLength(e)

\* "The first declared value, or the key itself when there are no values."
FirstValueOrKey(e) == IF Len(Values(e)) > 0 THEN Values(e)[1] ELSE Key(e)

\* The members of a group (1-based) that hold the key w.
MembersWithKey(g, w) == {i \in 1..Len(g.dicts) : HasKey(g.dicts[i].lexicon, w)}

SetMin(S) == CHOOSE x \in S : \A y \in S : x <= y

\* The entry stored for w in d: in a group, by the first member holding w.
StoredEntry(d, w) ==
    IF d.type = "DictGroup"
    THEN EntryWithKey(d.dicts[SetMin(MembersWithKey(d, w))].lexicon, w)
    ELSE EntryWithKey(d.lexicon, w)

Holds(d, w) ==
    IF d.type = "DictGroup" THEN MembersWithKey(d, w) # {} ELSE HasKey(d.lexicon, w)

SortedUnique(d) == LexiconIsSorted(d.lexicon) /\ LexiconIsUnique(d.lexicon)

(***************************************************************************)
(* C3.  TextDict.Match over a sorted, duplicate-free lexicon returns the   *)
(* entry whose key equals the word when the word is a key, and nil when it *)
(* is not.                                                                 *)
(***************************************************************************)
C3_MatchExact ==
    (op = "Match" /\ dict.type = "TextDict" /\ SortedUnique(dict)) =>
        IF HasKey(dict.lexicon, word)
        THEN result # Nil /\ Key(result) = word
             /\ result = EntryWithKey(dict.lexicon, word)
        ELSE result = Nil

C3_Witness ==
    /\ op = "Match" /\ dict.type = "TextDict"
    /\ Len(dict.lexicon) = 3
    /\ Key(dict.lexicon[3]) = word
    /\ result # Nil

(***************************************************************************)
(* C4 as stated.  TextDict.MatchPrefix returns the entry with the longest  *)
(* key that is a byte-prefix of the word, and nil exactly when no key is a *)
(* prefix of the word.                                                     *)
(***************************************************************************)
C4_AnyKeyPrefix ==
    (op = "MatchPrefix" /\ dict.type = "TextDict" /\ SortedUnique(dict)) =>
        IF PrefixEntries(dict.lexicon, word) = {}
        THEN result = Nil
        ELSE IsLongestOf(result, PrefixEntries(dict.lexicon, word))

(***************************************************************************)
(* C4 amended.  TextDict.MatchPrefix returns the entry with the longest    *)
(* non-empty key that is a byte-prefix of the word, and nil exactly when   *)
(* no non-empty key is a prefix of the word.                               *)
(***************************************************************************)
C4_LongestPrefix ==
    (op = "MatchPrefix" /\ dict.type = "TextDict" /\ SortedUnique(dict)) =>
        IF NonEmptyPrefixEntries(dict.lexicon, word) = {}
        THEN result = Nil
        ELSE IsLongestOf(result, NonEmptyPrefixEntries(dict.lexicon, word))

C4_Witness ==
    /\ op = "MatchPrefix" /\ dict.type = "TextDict"
    /\ Cardinality(NonEmptyPrefixEntries(dict.lexicon, word)) = 2
    /\ KeyLength(result) = 2
    /\ Len(word) = 3

(***************************************************************************)
(* C6 as stated.  Conversion.Convert returns the default value (first      *)
(* value, or the key when there are none) of the entry stored for the      *)
(* phrase when the dictionary holds the phrase, and the phrase otherwise.  *)
(***************************************************************************)
C6_ConvertAnyPhrase ==
    op = "Convert" =>
        converted = IF Holds(dict, word)
                    THEN FirstValueOrKey(StoredEntry(dict, word))
                    ELSE word

(***************************************************************************)
(* C6 amended.  The same for every non-empty phrase; the empty phrase is   *)
(* returned unchanged whatever the dictionary holds.                       *)
(***************************************************************************)
C6_ConvertPhrase ==
    op = "Convert" =>
        converted = IF word # <<>> /\ Holds(dict, word)
                    THEN FirstValueOrKey(StoredEntry(dict, word))
                    ELSE word

C6_Witness ==
    /\ op = "Convert"
    /\ word # <<>>
    /\ Holds(dict, word)
    /\ converted # word
    /\ StoredEntry(dict, word).type = "StrMultiValue"

(***************************************************************************)
(* C8.  DictGroup.Match returns the entry of the first member, in list     *)
(* order, that holds the word, and nil only when no member holds it.       *)
(***************************************************************************)
C8_GroupMatchFirst ==
    (op = "Match" /\ dict.type = "DictGroup") =>
        IF MembersWithKey(dict, word) = {}
        THEN result = Nil
        ELSE result = EntryWithKey(
                 dict.dicts[SetMin(MembersWithKey(dict, word))].lexicon, word)

C8_Witness ==
    /\ op = "Match" /\ dict.type = "DictGroup"
    /\ MembersWithKey(dict, word) = {1, 2}
    /\ result = EntryWithKey(dict.dicts[1].lexicon, word)
    /\ result # EntryWithKey(dict.dicts[2].lexicon, word)

(***************************************************************************)
(* C9.  DictGroup.MatchPrefix returns, among the members' own longest      *)
(* prefix matches, the one with the greatest key length; of several with   *)
(* that length, the earliest member's; nil only when no member has one.    *)
(***************************************************************************)
MemberPrefixMatch(g, w, i) == TextDictMatchPrefix(g.dicts[i], w)

MembersWithPrefix(g, w) ==
    {i \in 1..Len(g.dicts) : MemberPrefixMatch(g, w, i) # Nil}

LongestMembers(g, w) ==
    {i \in MembersWithPrefix(g, w) :
        \A j \in MembersWithPrefix(g, w) :
            KeyLength(MemberPrefixMatch(g, w, j))
                <= KeyLength(MemberPrefixMatch(g, w, i))}

C9_GroupMatchPrefix ==
    (op = "MatchPrefix" /\ dict.type = "DictGroup") =>
        IF MembersWithPrefix(dict, word) = {}
        THEN result = Nil
        ELSE result = MemberPrefixMatch(dict, word, SetMin(LongestMembers(dict, word)))

C9_Witness ==
    /\ op = "MatchPrefix" /\ dict.type = "DictGroup"
    /\ LongestMembers(dict, word) = {1, 2}
    /\ MemberPrefixMatch(dict, word, 1) # MemberPrefixMatch(dict, word, 2)
    /\ result = MemberPrefixMatch(dict, word, 1)

(***************************************************************************)
(* C10.  For every entry a lookup returns, whatever its representation and *)
(* whichever lookup returned it: GetDefault is the first value when there  *)
(* is one and the key when there is none, NumValues is the length of       *)
(* Values, and the entry is the one the dictionary stores for its key.     *)
(***************************************************************************)
C10_DefaultValue ==
    result # Nil =>
        /\ GetDefault(result) = FirstValueOrKey(result)
        /\ NumValues(result) = Len(Values(result))
        /\ result = StoredEntry(dict, Key(result))

C10_Witness ==
    /\ op = "MatchPrefix"
    /\ result.type = "StrMultiValue"
    /\ Len(Values(result)) = 2
    /\ GetDefault(result) = Values(result)[1]

(***************************************************************************)
(* What segmentation and conversion are to produce, stated on the text.    *)
(***************************************************************************)
\* All entries of a dictionary, the members' entries for a group.
DictEntries(d) ==
    IF d.type = "DictGroup"
    THEN UNION {LexiconEntries(d.dicts[i].lexicon) : i \in 1..Len(d.dicts)}
    ELSE LexiconEntries(d.lexicon)

Drop(s, n) == SubSeq(s, n + 1, Len(s))

\* The non-empty keys of d that are a prefix of the text from offset p on.
KeysAt(d, txt, p) ==
    {Key(e) : e \in {f \in DictEntries(d) :
                        Key(f) # <<>> /\ IsPrefix(Key(f), Drop(txt, p))}}

LongestKey(K) == CHOOSE k \in K : \A j \in K : Len(j) <= Len(k)

\* The byte offset at which segment j (0-based) starts.
RECURSIVE Offset(_, _)
Offset(segs, j) ==
    IF j = 0 THEN 0 ELSE Offset(segs, j - 1) + Len(SegmentsAt(segs, j - 1))

IsManaged(segs, j) == segs.indexes[j + 1].managed

\* UTF-8 proper: the length a lead byte announces, 0 for a byte that is no
\* lead byte (a continuation byte 0x80..0xBF or a byte from 0xF8 on).
LeadLen(b) ==
    CASE b < 128 -> 1
      [] b >= 192 /\ b < 224 -> 2
      [] b >= 224 /\ b < 240 -> 3
      [] b >= 240 /\ b < 248 -> 4
      [] OTHER -> 0

IsContinuation(b) == b >= 128 /\ b < 192

\* The string is a sequence of structurally complete UTF-8 characters.
RECURSIVE ValidUTF8(_)
ValidUTF8(txt) ==
    \/ txt = <<>>
    \/ LET n == LeadLen(txt[1])
       IN  /\ n > 0
           /\ n <= Len(txt)
           /\ \A i \in 2..n : IsContinuation(txt[i])
           /\ ValidUTF8(Drop(txt, n))

\* Maximal-match replacement over the lexicon l: at each point the longest
\* non-empty key that is a prefix is replaced by the first value of its entry
\* (by the key when it has no value); where no key is a prefix one code point
\* is copied.
RECURSIVE RefReplace(_, _)
RefReplace(l, txt) ==
    IF txt = <<>> THEN <<>>
    ELSE LET P == NonEmptyPrefixEntries(l, txt)
         IN  IF P # {}
             THEN LET e == CHOOSE f \in P : IsLongestOf(f, P)
                  IN  FirstValueOrKey(e) \o RefReplace(l, Drop(txt, KeyLength(e)))
             ELSE SubSeq(txt, 1, LeadLen(txt[1]))
                      \o RefReplace(l, Drop(txt, LeadLen(txt[1])))

\* The first k steps of the chain c applied in order to one segment.
RECURSIVE ChainOnSegment(_, _, _)
ChainOnSegment(c, seg, k) ==
    IF k = 0 THEN seg
    ELSE ConversionConvert(c[k], ChainOnSegment(c, seg, k - 1))

\* The concatenation, from segment j on, of the whole chain applied to each
\* segment of segs.
RECURSIVE ComposedFrom(_, _, _)
ComposedFrom(c, segs, j) ==
    IF j < SegmentsLength(segs)
    THEN ChainOnSegment(c, SegmentsAt(segs, j), Len(c)) \o ComposedFrom(c, segs, j + 1)
    ELSE <<>>

(***************************************************************************)
(* C1.  Segment returns for every text and dictionary, invalid UTF-8       *)
(* included, and the concatenation of the segments it returns is the text, *)
(* byte for byte; for MaxMatchSegmentation and CharactersSegmentation.     *)
(***************************************************************************)
C1_Coverage ==
    pc \in {"done", "panic"} =>
        /\ pc = "done"
        /\ SegmentsToString(segments) = text

\* What the code does keep: a call that returns has covered the text.
C1_CoverageOnReturn ==
    pc = "done" => SegmentsToString(segments) = text

(***************************************************************************)
(* C5.  Forward maximum matching is greedy: every segment emitted at an    *)
(* offset where some (non-empty) key is a prefix of the rest of the text   *)
(* is the longest such key, taken from the dictionary; at every other      *)
(* offset the cursor reaches a fallback segment is emitted.                *)
(***************************************************************************)
GreedyAt(j) ==
    LET K == KeysAt(segmenter.dict, text, Offset(segments, j))
    IN  IF K # {}
        THEN SegmentsAt(segments, j) = LongestKey(K) /\ ~IsManaged(segments, j)
        ELSE IsManaged(segments, j)

C5_Greedy ==
    segmenter.type = "mmseg" =>
        /\ \A j \in 0..(SegmentsLength(segments) - 1) : GreedyAt(j)
        /\ pc # "panic"

\* What the code does keep: the segments it emits are the greedy ones.
C5_GreedyOnEmitted ==
    segmenter.type = "mmseg" =>
        \A j \in 0..(SegmentsLength(segments) - 1) : GreedyAt(j)

(***************************************************************************)
(* C2.  Converter.Convert(text) is the concatenation of the chain applied  *)
(* to the segments the segmenter returned, and the empty string for the    *)
(* empty text.  With one dictionary for segmentation and for a single      *)
(* step, on well-formed text and keys, it is the maximal-match             *)
(* replacement: every longest key occurrence gives its default value,      *)
(* every other code point is copied.                                       *)
(***************************************************************************)
OneDict ==
    /\ segmenter.type = "mmseg"
    /\ chain = <<segmenter.dict>>
    /\ ValidUTF8(text)
    /\ \A e \in DictEntries(segmenter.dict) : ValidUTF8(Key(e))

C2_ConvertComposes ==
    /\ pc = "returned" =>
          output = IF text = <<>> THEN <<>> ELSE ComposedFrom(chain, segmented, 0)
    /\ OneDict =>
          /\ pc # "panic"
          /\ pc = "returned" => output = RefReplace(segmenter.dict.lexicon, text)

C2_Witness ==
    /\ pc = "returned"
    /\ segmenter = NewMaxMatchSegmentation(ConvDict2)
    /\ chain = <<ConvDict2>>
    /\ text = <<195, 128, 97>>
    /\ output = <<195, 128, 97, 97>>

(***************************************************************************)
(* C7.  ConversionChain.Convert threads the segments through the steps in  *)
(* list order without re-segmenting: after k steps there are as many       *)
(* segments as were handed in, and segment j is step k of ... step 1 of    *)
(* the j-th segment handed in; with no step the segments are unchanged.    *)
(***************************************************************************)
C7_ChainThreads ==
    pc = "chain" =>
        /\ SegmentsLength(segments) = SegmentsLength(segmented)
        /\ \A j \in 0..(SegmentsLength(segmented) - 1) :
              SegmentsAt(segments, j)
                  = ChainOnSegment(chain, SegmentsAt(segmented, j), stepIdx)
        /\ stepIdx = 0 => segments = segmented

C7_Witness ==
    /\ pc = "chain"
    /\ chain = <<ConvDict1, ConvDict2>>
    /\ stepIdx = 2
    /\ SegmentsLength(segmented) = 2
    /\ SegmentsAt(segmented, 0) = <<97>>
    /\ SegmentsAt(segmented, 1) = <<97>>
    /\ SegmentsAt(segments, 0) = <<99>>
    /\ SegmentsAt(segments, 1) = <<99>>

(***************************************************************************)
(* SpecParse: loadTextDict(filename) on one source file.  The file is      *)
(* missing, cannot be opened, or delivers reader.data and then ends with   *)
(* io.EOF ("EOF") or with a read error ("fault"); reader.pos bytes of it   *)
(* have been read.  pc is "load" before the                                *)
(* call, "open" in ParseLexiconFromFile, "read" at the head of the loop of *)
(* ParseLexiconFromReader, "parsed" when ParseLexiconFromFile has returned *)
(* and "loaded" when loadTextDict has returned.                            *)
(***************************************************************************)
MaxLines == 2       \* most lines in a source file

\* The nil Dict.
NilDict == [type |-> "nil", maxLength |-> 0, lexicon |-> <<>>, dicts |-> <<>>]

\* bytes.IndexByte: the 0-based index of the first b in s, -1 if none.
RECURSIVE IndexByteFrom(_, _, _)
IndexByteFrom(s, b, i) ==
    IF i >= Len(s) THEN -1
    ELSE IF s[i + 1] = b THEN i
    ELSE IndexByteFrom(s, b, i + 1)

IndexByte(s, b) == IndexByteFrom(s, b, 0)

\* bufio.Reader.ReadString('\n') on the source r: the bytes up to and with
\* the next '\n' and no error, or else all the bytes left and the error the
\* source ends with.
ReadString(r) ==
    LET i == IndexByteFrom(r.data, 10, r.pos)
    IN  IF i >= 0
        THEN [line |-> Slice(r.data, r.pos, i + 1), err |-> "nil", pos |-> i + 1]
        ELSE [line |-> Slice(r.data, r.pos, Len(r.data)), err |-> r.ending,
              pos |-> Len(r.data)]

\* strings.TrimRight(s, "\r\n")
RECURSIVE TrimRight(_)
TrimRight(s) ==
    IF Len(s) > 0 /\ s[Len(s)] \in {13, 10}
    THEN TrimRight(SubSeq(s, 1, Len(s) - 1))
    ELSE s

\* strings.HasPrefix(s, "#")
HasPrefixHash(s) == Len(s) >= 1 /\ s[1] = 35

\* strings.SplitN(s, "\t", 2)
SplitN(s) ==
    LET i == IndexByte(s, 9)
    IN  IF i < 0 THEN <<s>>
        ELSE <<Slice(s, 0, i), SubSeq(s, i + 2, Len(s))>>

\* unicode.IsSpace on one byte of ASCII.
IsSpace(b) == b \in {9, 10, 11, 12, 13, 32}

\* strings.Fields(s) from byte i on, cur the field under way, acc the fields
\* found so far.
RECURSIVE FieldsFrom(_, _, _, _)
FieldsFrom(s, i, cur, acc) ==
    IF i >= Len(s) THEN (IF cur = <<>> THEN acc ELSE Append(acc, cur))
    ELSE IF IsSpace(s[i + 1])
         THEN FieldsFrom(s, i + 1, <<>>,
                         IF cur = <<>> THEN acc ELSE Append(acc, cur))
         ELSE FieldsFrom(s, i + 1, Append(cur, s[i + 1]), acc)

Fields(s) == FieldsFrom(s, 0, <<>>, <<>>)

\* DictEntryFactory.NewMulti
NewMulti(key, values) ==
    IF Len(values) = 0 THEN NewNoValueDictEntry(key)
    ELSE IF Len(values) = 1 THEN NewStrSingleValueDictEntry(key, values[1])
    ELSE NewStrMultiValueDictEntry(key, values)

\* The entry ParseLexiconFromReader makes of a line that is not skipped.
ParseLine(line) ==
    LET parts == SplitN(line)
        values == IF Len(parts) > 1 THEN Fields(parts[2]) ELSE <<>>
    IN  NewMulti(parts[1], values)

\* Lexicon.Add
LexiconAdd(l, entry) == Append(l, entry)

\* The lines of the source files, without their line ends:
\* "", "#a", "a", "a<TAB>b", "a<TAB>b a", "<TAB>b", "a<TAB>", "a<TAB>b<TAB>a",
\* "b<TAB> " and "b a".
LineTexts ==
    {<<>>, <<35, 97>>, <<97>>, <<97, 9, 98>>, <<97, 9, 98, 32, 97>>,
     <<9, 98>>, <<97, 9>>, <<97, 9, 98, 9, 97>>, <<98, 9, 32>>,
     <<98, 32, 97>>}

LineEnds == {<<10>>, <<13, 10>>}

\* The files of at most n lines; the last line may lack its line end.
RECURSIVE FilesOf(_)
FilesOf(n) ==
    IF n = 0 THEN {<<>>}
    ELSE {l \o e \o f : l \in LineTexts, e \in LineEnds, f \in FilesOf(n - 1)}
             \cup LineTexts

Readers ==
    {[data |-> d, pos |-> 0, ending |-> e, file |-> f] :
        d \in FilesOf(MaxLines), e \in {"EOF", "fault"},
        f \in {"ok", "missing", "locked"}}

InitParse ==
    /\ ExtIdle
    /\ reader \in {r \in Readers : r.file # "ok" => r.data = <<>> /\ r.ending = "EOF"}
    /\ entries = <<>>
    /\ err = "nil"
    /\ pc = "load"
    /\ dict = NilDict
    /\ flag = FALSE
    /\ dupkey = <<>>
    /\ word = <<>>
    /\ op = "idle"
    /\ result = Nil
    /\ converted = <<>>
    /\ segmenter = NoSeg
    /\ text = <<>>
    /\ position = 0
    /\ segments = NewSegments
    /\ ConvIdle
    /\ QueryIdle
    /\ ConcIdle

parseFrame == <<word, op, result, converted, segmenter, text, position,
                segments, convVars, flag, dupkey, matches, count, calls, extVars>>

\* loadTextDict up to the call of ParseLexiconFromFile: findFile.
FindFile ==
    /\ pc = "load"
    /\ IF reader.file = "missing"
       THEN /\ pc' = "loaded"
            /\ err' = "not found"
            /\ dict' = NilDict
       ELSE /\ pc' = "open"
            /\ UNCHANGED <<err, dict>>
    /\ UNCHANGED <<reader, entries, parseFrame>>

\* ParseLexiconFromFile up to the loop of ParseLexiconFromReader: os.Open
\* and NewLexicon.
OpenFile ==
    /\ pc = "open"
    /\ IF reader.file = "locked"
       THEN /\ pc' = "parsed"
            /\ err' = "open"
       ELSE /\ pc' = "read"
            /\ err' = err
    /\ entries' = <<>>
    /\ UNCHANGED <<reader, dict, parseFrame>>

\* One iteration of the loop of ParseLexiconFromReader; on a break the
\* function returns the lexicon and a nil error.
ReadLine ==
    /\ pc = "read"
    /\ LET r == ReadString(reader)
           line == TrimRight(r.line)
           stop == r.err # "nil"
       IN  /\ reader' = [reader EXCEPT !.pos = r.pos]
           /\ IF r.err # "nil" /\ r.err # "EOF" /\ Len(r.line) = 0
              THEN /\ entries' = entries
                   /\ pc' = "parsed"
              ELSE IF Len(line) = 0 \/ HasPrefixHash(line)
              THEN /\ entries' = entries
                   /\ pc' = IF stop THEN "parsed" ELSE "read"
              ELSE /\ entries' = LexiconAdd(entries, ParseLine(line))
                   /\ pc' = IF stop THEN "parsed" ELSE "read"
    /\ err' = "nil"
    /\ UNCHANGED <<dict, parseFrame>>

\* loadTextDict after ParseLexiconFromFile has returned.
LoadTextDict ==
    /\ pc = "parsed"
    /\ pc' = "loaded"
    /\ IF err # "nil"
       THEN /\ dict' = NilDict
            /\ UNCHANGED entries
       ELSE /\ entries' \in LexiconSort(entries)
            /\ dict' = NewTextDict(entries')
    /\ UNCHANGED <<reader, err, parseFrame>>

NextParse == FindFile \/ OpenFile \/ ReadLine \/ LoadTextDict

SpecParse == InitParse /\ [][NextParse]_vars

\* The source failed: it is missing, cannot be opened, or ends in a read error.
SourceFailed(r) == r.file # "ok" \/ r.ending = "fault"

(***************************************************************************)
(* C11.  When the source fails (it cannot be opened, or a read error       *)
(* strikes part-way), ParseLexiconFromFile returns a non-nil error, and    *)
(* loadTextDict returns an error and no dictionary.                        *)
(***************************************************************************)
C11_IOFailureAborts ==
    SourceFailed(reader) =>
        /\ pc = "parsed" => err # "nil"
        /\ pc = "loaded" => err # "nil" /\ dict = NilDict

\* The part of C11 that holds: a file that is missing or cannot be opened.
C11_OpenFailureAborts ==
    reader.file # "ok" =>
        /\ pc = "parsed" => err # "nil"
        /\ pc = "loaded" => err # "nil" /\ dict = NilDict

(***************************************************************************)
(* SpecConc: MaxCalls goroutines call Convert on one Converter.  The       *)
(* Converter (segmenter, chain) is shared and only read; calls[g] holds    *)
(* the arguments and local variables of call g: text, the cursor position  *)
(* and the Segments of Segment, the step index of the chain, the returned  *)
(* string, and pc: "convert" before the call, "loop" in Segment, "chain"   *)
(* in ConversionChain.Convert, "returned" or "panic" at the end.  A step   *)
(* of the specification is one step of one call, in any order.             *)
(***************************************************************************)
MaxCalls == 2       \* the number of concurrent calls of Convert

\* "", a, aa, ab, U+00C0 and the stray continuation byte 0x80
ConcTexts == {<<>>, <<97>>, <<97, 97>>, <<97, 98>>, <<195, 128>>, <<128>>}

ConcSegmenters == {NewMaxMatchSegmentation(ConvDict1), NewCharactersSegmentation}

ConcChains == {NewConversionChain(<<ConvDict1>>),
               NewConversionChain(<<ConvDict2, ConvDict1>>)}

\* The frame of a call of Convert(txt) that has not started.
NewCall(txt) ==
    [text |-> txt, position |-> 0, segments |-> NewSegments, pc |-> "convert",
     stepIdx |-> 0, output |-> <<>>]

\* Convert up to the loop of Segment: the empty text is returned at once.
CallEntered(f) ==
    IF Len(f.text) = 0
    THEN [f EXCEPT !.pc = "returned", !.output = f.text]
    ELSE [f EXCEPT !.pc = "loop", !.segments = NewSegments, !.position = 0]

\* One iteration of the loop of Segment (of either segmenter) in frame f, or
\* its return into ConversionChain.Convert when the loop condition fails.
CallSegmented(seg, f) ==
    IF ~(f.position < Len(f.text)) THEN [f EXCEPT !.pc = "chain", !.stepIdx = 0]
    ELSE LET match == IF seg.type = "mmseg"
                      THEN findLongestMatch(seg.dict, f.text, f.position,
                                            DictKeyMaxLength(seg.dict))
                      ELSE Nil
             charLen == FallbackLen(IF seg.type = "mmseg"
                                    THEN nextUTF8CharLength(f.text, f.position)
                                    ELSE charsNextUTF8CharLength(f.text, f.position))
         IN  IF match # Nil
             THEN [f EXCEPT !.segments = AddUnmanaged(@, Key(match)),
                            !.position = @ + KeyLength(match)]
             ELSE IF f.position + charLen > Len(f.text)
             THEN [f EXCEPT !.pc = "panic"]
             ELSE [f EXCEPT !.segments = AddManaged(@,
                                Slice(f.text, f.position, f.position + charLen)),
                            !.position = @ + charLen]

\* The Segments a call hands to the next conversion of the chain, as if the
\* segmenter kept its result in one place for all calls.
ChainInputShared(cs, g) == cs[1].segments

\* The Segments call g hands to the next conversion of the chain: its own
\* local variable result.
ChainInput(cs, g) == cs[g].segments

\* One iteration of the loop of ConversionChain.Convert in call g.
CallChained(ch, cs, g) ==
    [cs[g] EXCEPT !.segments = ConvertSegments(ch[cs[g].stepIdx + 1],
                                               ChainInput(cs, g)),
                  !.stepIdx = @ + 1]

\* Convert returns result.ToString().
CallReturned(f) ==
    [f EXCEPT !.pc = "returned", !.output = SegmentsToString(f.segments)]

InitConc ==
    /\ ExtIdle
    /\ segmenter \in ConcSegmenters
    /\ chain \in ConcChains
    /\ calls \in [1..MaxCalls -> {NewCall(t) : t \in ConcTexts}]
    /\ text = <<>>
    /\ position = 0
    /\ segments = NewSegments
    /\ pc = "idle"
    /\ stepIdx = 0
    /\ segmented = NewSegments
    /\ output = <<>>
    /\ DictIdle
    /\ LexIdle
    /\ QueryIdle

concFrame == <<segmenter, chain, text, position, segments, pc, stepIdx,
               segmented, output, dictVars, lexVars, matches, count, extVars>>

CallEnter(g) ==
    /\ calls[g].pc = "convert"
    /\ calls' = [calls EXCEPT ![g] = CallEntered(calls[g])]
    /\ UNCHANGED concFrame

CallSegment(g) ==
    /\ calls[g].pc = "loop"
    /\ calls' = [calls EXCEPT ![g] = CallSegmented(segmenter, calls[g])]
    /\ UNCHANGED concFrame

CallChain(g) ==
    /\ calls[g].pc = "chain"
    /\ calls[g].stepIdx < Len(chain)
    /\ calls' = [calls EXCEPT ![g] = CallChained(chain, calls, g)]
    /\ UNCHANGED concFrame

CallReturn(g) ==
    /\ calls[g].pc = "chain"
    /\ calls[g].stepIdx = Len(chain)
    /\ calls' = [calls EXCEPT ![g] = CallReturned(calls[g])]
    /\ UNCHANGED concFrame

NextConc ==
    \E g \in 1..MaxCalls :
        \/ CallEnter(g)
        \/ CallSegment(g)
        \/ CallChain(g)
        \/ CallReturn(g)

SpecConc == InitConc /\ [][NextConc]_vars

\* The frame in which the call of frame f ends when it runs with no other.
RECURSIVE RunAlone(_, _, _)
RunAlone(seg, ch, f) ==
    CASE f.pc = "convert" -> RunAlone(seg, ch, CallEntered(f))
      [] f.pc = "loop"    -> RunAlone(seg, ch, CallSegmented(seg, f))
      [] f.pc = "chain"   ->
            IF f.stepIdx < Len(ch)
            THEN RunAlone(seg, ch, CallChained(ch, <<f>>, 1))
            ELSE RunAlone(seg, ch, CallReturned(f))
      [] OTHER            -> f

\* Call g has come to its end, by a return or by a panic.
Ended(g) == calls[g].pc \in {"returned", "panic"}

(***************************************************************************)
(* C12.  Concurrent calls of Convert on one Converter do not interfere:    *)
(* a step of one call changes no other call's frame and not the Converter, *)
(* and every call ends as it ends when run alone, with the same returned   *)
(* string.                                                                 *)
(***************************************************************************)
C12_ConcurrentConvert ==
    /\ [](\A g \in 1..MaxCalls :
             Ended(g) => calls[g] = RunAlone(segmenter, chain, NewCall(calls[g].text)))
    /\ [][/\ \A g, h \in 1..MaxCalls :
                (calls'[g] # calls[g] /\ h # g) => calls'[h] = calls[h]
          /\ segmenter' = segmenter
          /\ chain' = chain]_vars

\* Two calls with different texts have both returned, each after steps of
\* the other.
C12_Witness ==
    /\ calls[1].pc = "returned"
    /\ calls[2].pc = "returned"
    /\ calls[1].text = <<97, 97>>
    /\ calls[2].text = <<97, 98>>
    /\ calls[1].output # calls[2].output
    /\ Len(chain) = 2

(***************************************************************************)
(* SpecLex: the public operations of one Lexicon L and of the TextDict     *)
(* made of it.  NewTextDict stores the pointer L and GetLexicon returns    *)
(* it: the dictionary's lexicon and L are one object, so that dict.lexicon *)
(* follows entries from the construction on.  Every operation records its  *)
(* name in op and its result in flag, dupkey or count.                     *)
(***************************************************************************)
MaxAdds == 4        \* most entries added to the Lexicon

\* a -> A1, a -> A2, ab -> [X1, Y1]
LexEntries == {EntryOf(<<97>>, 1), EntryOf(<<97>>, 2), EntryOf(<<97, 98>>, 1)}

\* The slices handed to SetEntries.
EntrySlices == {<<>>, <<EntryOf(<<98>>, 1), EntryOf(<<97>>, 1)>>}

\* The dictionary d seen through its pointer to the Lexicon of entries es.
Aliased(d, es) == IF d = NilDict THEN d ELSE [d EXCEPT !.lexicon = es]

\* The loop of IsUnique over the sorted copy, from index i on: the result
\* and the duplicate key found, if any.
RECURSIVE FirstDupFrom(_, _)
FirstDupFrom(entriesCopy, i) ==
    IF i >= Len(entriesCopy) THEN [unique |-> TRUE, key |-> <<>>]
    ELSE IF Key(entriesCopy[i + 1]) = Key(entriesCopy[i])
         THEN [unique |-> FALSE, key |-> Key(entriesCopy[i + 1])]
         ELSE FirstDupFrom(entriesCopy, i + 1)

\* A slip in IsUnique: the copy is scanned without being sorted.
IsUniqueUnsorted(l) ==
    IF Len(l) = 0 THEN {[unique |-> TRUE, key |-> <<>>]}
    ELSE {FirstDupFrom(l, 1)}

\* Lexicon.IsUnique: the results it may have, one for each way sort.Slice
\* may order the copy.
IsUnique(l) ==
    IF Len(l) = 0 THEN {[unique |-> TRUE, key |-> <<>>]}
    ELSE {FirstDupFrom(entriesCopy, 1) : entriesCopy \in LexiconSort(l)}

InitLex ==
    /\ ExtIdle
    /\ entries = <<>>
    /\ dict = NilDict
    /\ op = "NewLexicon"
    /\ flag = FALSE
    /\ dupkey = <<>>
    /\ count = 0
    /\ reader = NoReader
    /\ err = "nil"
    /\ word = <<>>
    /\ result = Nil
    /\ converted = <<>>
    /\ matches = <<>>
    /\ SegIdle
    /\ ConvIdle
    /\ ConcIdle

lexFrame == <<reader, err, word, result, converted, matches, segVars,
              convVars, calls, extVars>>

\* L.Add(entry), or GetLexicon().Add(entry)
LexAdd(entry) ==
    /\ Len(entries) < MaxAdds
    /\ entries' = LexiconAdd(entries, entry)
    /\ dict' = Aliased(dict, entries')
    /\ op' = "Add"
    /\ flag' = FALSE /\ dupkey' = <<>> /\ count' = 0
    /\ UNCHANGED lexFrame

\* L.Sort()
LexSort ==
    /\ entries' \in LexiconSort(entries)
    /\ dict' = Aliased(dict, entries')
    /\ op' = "Sort"
    /\ flag' = FALSE /\ dupkey' = <<>> /\ count' = 0
    /\ UNCHANGED lexFrame

\* L.SetEntries(es)
LexSetEntries(es) ==
    /\ entries' = es
    /\ dict' = Aliased(dict, entries')
    /\ op' = "SetEntries"
    /\ flag' = FALSE /\ dupkey' = <<>> /\ count' = 0
    /\ UNCHANGED lexFrame

\* L.IsSorted()
LexIsSorted ==
    /\ flag' = LexiconIsSorted(entries)
    /\ op' = "IsSorted"
    /\ dupkey' = <<>> /\ count' = 0
    /\ UNCHANGED <<entries, dict, lexFrame>>

\* var dupkey string; L.IsUnique(&dupkey), or L.IsUnique(nil)
LexIsUnique(nonNil) ==
    /\ \E r \in IsUnique(entries) :
          /\ flag' = r.unique
          /\ dupkey' = IF nonNil THEN r.key ELSE <<>>
    /\ op' = IF nonNil THEN "IsUnique" ELSE "IsUniqueNil"
    /\ count' = 0
    /\ UNCHANGED <<entries, dict, lexFrame>>

\* NewTextDict(L)
LexNewTextDict ==
    /\ dict' = NewTextDict(entries)
    /\ op' = "NewTextDict"
    /\ flag' = FALSE /\ dupkey' = <<>> /\ count' = 0
    /\ UNCHANGED <<entries, lexFrame>>

\* dict.KeyMaxLength()
LexKeyMaxLength ==
    /\ dict # NilDict
    /\ count' = TextDictKeyMaxLength(dict)
    /\ op' = "KeyMaxLength"
    /\ flag' = FALSE /\ dupkey' = <<>>
    /\ UNCHANGED <<entries, dict, lexFrame>>

NextLex ==
    \/ \E entry \in LexEntries : LexAdd(entry)
    \/ LexSort
    \/ \E es \in EntrySlices : LexSetEntries(es)
    \/ LexIsSorted
    \/ \E nonNil \in BOOLEAN : LexIsUnique(nonNil)
    \/ LexNewTextDict
    \/ LexKeyMaxLength

SpecLex == InitLex /\ [][NextLex]_vars

\* The greatest key length of the lexicon l, 0 when it is empty.
MaxKeyLength(l) ==
    IF l = <<>> THEN 0
    ELSE CHOOSE n \in {KeyLength(l[i]) : i \in 1..Len(l)} :
            \A i \in 1..Len(l) : KeyLength(l[i]) <= n

\* The dictionary d holds a sorted lexicon and its greatest key length.
WellFormed(d) ==
    /\ d # NilDict
    /\ LexiconIsSorted(d.lexicon)
    /\ TextDictKeyMaxLength(d) = MaxKeyLength(d.lexicon)

(***************************************************************************)
(* C13.  A dictionary is immutable after construction: once it holds a     *)
(* sorted lexicon and its greatest key length, it does so after every      *)
(* later operation on the Lexicon it was made of.                          *)
(***************************************************************************)
C13_Immutable ==
    [][(WellFormed(dict) /\ op' # "NewTextDict") => WellFormed(dict')]_vars

\* What holds of it: operations that only read leave the dictionary as it is.
C13_ReadsPreserve ==
    [][(WellFormed(dict) /\ op' \in {"IsSorted", "IsUnique", "IsUniqueNil",
                                     "KeyMaxLength"})
            => dict' = dict]_vars

(***************************************************************************)
(* SpecQuery: KeyMaxLength and MatchAllPrefixes on one constructed         *)
(* dictionary, a TextDict or a DictGroup of TextDicts.                     *)
(***************************************************************************)
\* The loop of TextDict.MatchAllPrefixes from length l on.
RECURSIVE MatchAllFrom(_, _, _, _, _)
MatchAllFrom(d, w, l, maxLen, results) ==
    IF l > maxLen THEN results
    ELSE LET prefix == Slice(w, 0, l)
             idx == SortSearch(d.lexicon, prefix, 0, LexiconLen(d.lexicon))
         IN  MatchAllFrom(d, w, l + 1, maxLen,
                 IF idx < LexiconLen(d.lexicon)
                        /\ Key(LexiconAt(d.lexicon, idx)) = prefix
                 THEN Append(results, LexiconAt(d.lexicon, idx))
                 ELSE results)

\* The same, the longest key first (the order the method's comment names).
TextDictMatchAllPrefixesDescending(d, w) ==
    LET r == MatchAllFrom(d, w, 1, Min(Len(w), d.maxLength), <<>>)
    IN  [i \in 1..Len(r) |-> r[Len(r) + 1 - i]]

TextDictMatchAllPrefixes(d, w) ==
    MatchAllFrom(d, w, 1, Min(Len(w), d.maxLength), <<>>)

\* The first loop of DictGroup.MatchAllPrefixes: the members' results, one
\* after the other, from member i on.
RECURSIVE AllEntriesFrom(_, _, _, _)
AllEntriesFrom(g, w, i, allEntries) ==
    IF i >= Len(g.dicts) THEN allEntries
    ELSE AllEntriesFrom(g, w, i + 1,
             allEntries \o TextDictMatchAllPrefixes(g.dicts[i + 1], w))

\* The less function DictGroup.MatchAllPrefixes sorts with.
GroupLess(a, b) ==
    IF KeyLength(a) # KeyLength(b) THEN KeyLength(a) > KeyLength(b)
    ELSE StrLess(Key(a), Key(b))

\* sort.Slice(allEntries, less): the orders it may leave the elements of the
\* index set I in.  It promises a sorted permutation and no more (it is not
\* stable).
RECURSIVE SortSliceOf(_, _)
SortSliceOf(allEntries, I) ==
    IF I = {} THEN {<<>>}
    ELSE UNION {{<<allEntries[i]>> \o t : t \in SortSliceOf(allEntries, I \ {i})} :
                  i \in {k \in I : \A j \in I : ~GroupLess(allEntries[j], allEntries[k])}}

\* The last loop of DictGroup.MatchAllPrefixes: the first entry of each key.
RECURSIVE UniqueFrom(_, _, _, _)
UniqueFrom(allEntries, i, seen, uniqueEntries) ==
    IF i >= Len(allEntries) THEN uniqueEntries
    ELSE LET entry == allEntries[i + 1]
         IN  IF Key(entry) \in seen
             THEN UniqueFrom(allEntries, i + 1, seen, uniqueEntries)
             ELSE UniqueFrom(allEntries, i + 1, seen \cup {Key(entry)},
                             Append(uniqueEntries, entry))

\* DictGroup.MatchAllPrefixes: the results it may return.
DictGroupMatchAllPrefixes(g, w) ==
    LET allEntries == AllEntriesFrom(g, w, 0, <<>>)
    IN  {UniqueFrom(sorted, 0, {}, <<>>) :
            sorted \in SortSliceOf(allEntries, DOMAIN allEntries)}

DictMatchAllPrefixes(d, w) ==
    IF d.type = "TextDict" THEN {TextDictMatchAllPrefixes(d, w)}
    ELSE DictGroupMatchAllPrefixes(d, w)

InitQuery ==
    /\ ExtIdle
    /\ dict \in Dicts
    /\ word \in Words
    /\ op = "new"
    /\ result = Nil
    /\ converted = <<>>
    /\ matches = <<>>
    /\ count = 0
    /\ SegIdle
    /\ ConvIdle
    /\ LexIdle
    /\ ConcIdle

queryFrame == <<dict, word, result, converted, segVars, convVars, lexVars, calls, extVars>>

\* dict.KeyMaxLength()
KeyMaxLength ==
    /\ op' = "KeyMaxLength"
    /\ count' = DictKeyMaxLength(dict)
    /\ matches' = <<>>
    /\ UNCHANGED queryFrame

\* dict.MatchAllPrefixes(word)
MatchAllPrefixes ==
    /\ op' = "MatchAllPrefixes"
    /\ matches' \in DictMatchAllPrefixes(dict, word)
    /\ count' = 0
    /\ UNCHANGED queryFrame

NextQuery == KeyMaxLength \/ MatchAllPrefixes

SpecQuery == InitQuery /\ [][NextQuery]_vars

\* The greatest of a set of naturals, 0 when it is empty.
SetMax(S) == IF S = {} THEN 0 ELSE CHOOSE x \in S : \A y \in S : y <= x

(***************************************************************************)
(* C14.  On a dictionary just constructed, TextDict.KeyMaxLength() is the  *)
(* greatest byte length of the keys of its lexicon (0 when it is empty),   *)
(* and DictGroup.KeyMaxLength() is the greatest KeyMaxLength() of its      *)
(* members (0 when it has none).                                           *)
(***************************************************************************)
C14_KeyMaxLength ==
    op = "KeyMaxLength" =>
        IF dict.type = "TextDict"
        THEN count = SetMax({KeyLength(e) : e \in LexiconEntries(dict.lexicon)})
        ELSE count = SetMax({TextDictKeyMaxLength(dict.dicts[i]) :
                                i \in 1..Len(dict.dicts)})

\* KeyMaxLength has answered for a group whose longest key is in its last
\* member.
C14_Witness ==
    /\ op = "KeyMaxLength"
    /\ dict.type = "DictGroup"
    /\ Len(dict.dicts) = 2
    /\ TextDictKeyMaxLength(dict.dicts[1]) < TextDictKeyMaxLength(dict.dicts[2])
    /\ count = 2

\* The number of times the entry e occurs in the lexicon l.
Occurrences(l, e) == Cardinality({i \in 1..Len(l) : l[i] = e})

\* The lexicons l and m hold the same entries, each as many times.
SameBag(l, m) ==
    \A e \in LexiconEntries(l) \cup LexiconEntries(m) :
        Occurrences(l, e) = Occurrences(m, e)

\* No entry of l has a smaller key than an entry before it.
KeysNonDecreasing(l) ==
    \A i, j \in 1..Len(l) : i < j => ~StrLess(Key(l[j]), Key(l[i]))

(***************************************************************************)
(* C15.  Lexicon.Sort() leaves a permutation of the entries (the same      *)
(* entries, each as many times) with keys in non-decreasing byte order,    *)
(* and IsSorted() called next returns true; IsSorted() returns true        *)
(* exactly when no entry's key is smaller than its predecessor's, and      *)
(* leaves the Lexicon as it is.                                            *)
(***************************************************************************)
C15_SortAndIsSorted ==
    [][/\ op' = "Sort" =>
             /\ SameBag(entries, entries')
             /\ Len(entries') = Len(entries)
             /\ KeysNonDecreasing(entries')
       /\ op' = "IsSorted" =>
             /\ flag' = KeysNonDecreasing(entries)
             /\ entries' = entries
       /\ (op = "Sort" /\ op' = "IsSorted") => flag' = TRUE]_vars

\* IsSorted has returned true on a full lexicon with a duplicate key, which
\* only Sort can have put in order.
C15_Witness ==
    /\ op = "IsSorted"
    /\ flag = TRUE
    /\ Len(entries) = MaxAdds
    /\ ~LexiconIsUnique(entries)
    /\ Key(entries[1]) # Key(entries[MaxAdds])

\* The keys that two or more entries of the lexicon l have.
DupKeys(l) ==
    {Key(l[i]) : i \in {k \in 1..Len(l) : \E j \in 1..Len(l) : j # k /\ Key(l[j]) = Key(l[k])}}

\* The smallest of a non-empty set of keys, in byte order.
SmallestKey(K) == CHOOSE k \in K : \A j \in K : ~StrLess(j, k)

(***************************************************************************)
(* C16.  Lexicon.IsUnique(dupkey) returns true exactly when no two entries *)
(* have the same key; when it returns false and dupkey is not nil, dupkey  *)
(* is set to the smallest key that occurs twice or more; the Lexicon, its  *)
(* entries and their order, is left as it is, sorted or not.               *)
(***************************************************************************)
C16_IsUnique ==
    /\ [](op \in {"IsUnique", "IsUniqueNil"} =>
             /\ flag = LexiconIsUnique(entries)
             /\ (op = "IsUnique" /\ ~flag) => dupkey = SmallestKey(DupKeys(entries)))
    /\ [][op' \in {"IsUnique", "IsUniqueNil"} => entries' = entries]_vars

\* IsUnique has returned false on an unsorted lexicon with two duplicated
\* keys, the greater of them added first.
C16_Witness ==
    /\ op = "IsUnique"
    /\ flag = FALSE
    /\ ~LexiconIsSorted(entries)
    /\ Cardinality(DupKeys(entries)) = 2
    /\ Key(entries[1]) # dupkey
    /\ Key(entries[1]) \in DupKeys(entries)

(***************************************************************************)
(* C17.  Segmentation never fails and always ends, malformed UTF-8         *)
(* included: no call panics, every iteration of the loop moves the cursor  *)
(* forward, the cursor never passes the end of the text, and a call that   *)
(* has returned left its loop with the cursor at the end of the text; for  *)
(* MaxMatchSegmentation and CharactersSegmentation.                        *)
(***************************************************************************)
C17_NeverFails ==
    /\ [](/\ pc # "panic"
          /\ position <= Len(text)
          /\ pc = "done" => position = Len(text))
    /\ [][(pc = "loop" /\ pc' # "done") => position' > position]_vars

\* What the code does keep: the cursor of a call that does not panic moves
\* forward in every iteration, stays within the text and ends at its end.
C17_CursorAdvances ==
    /\ [](/\ position <= Len(text)
          /\ pc = "done" => position = Len(text))
    /\ [][(pc = "loop" /\ pc' = "loop") => position' > position]_vars

\* The bytes of txt from offset p on begin with a structurally complete UTF-8
\* character: a lead byte and the continuation bytes it announces.
ValidAt(txt, p) ==
    LET n == LeadLen(txt[p + 1])
    IN  /\ n > 0
        /\ p + n <= Len(txt)
        /\ \A i \in (p + 2)..(p + n) : IsContinuation(txt[i])

\* The length of the fallback segment at offset p: one code point, or one
\* byte where the bytes are no code point.
CodePointOrByte(txt, p) == IF ValidAt(txt, p) THEN LeadLen(txt[p + 1]) ELSE 1

(***************************************************************************)
(* C18.  Every fallback (owned) segment is exactly one valid UTF-8 code    *)
(* point or, where the bytes at the cursor are no structurally valid       *)
(* sequence, exactly one raw byte; it never takes bytes of a following     *)
(* character.                                                              *)
(***************************************************************************)
C18_FallbackOneCodePoint ==
    \A j \in 0..(SegmentsLength(segments) - 1) :
        IsManaged(segments, j) =>
            Len(SegmentsAt(segments, j)) = CodePointOrByte(text, Offset(segments, j))

\* What the code does keep: on structurally valid text every fallback
\* segment is one code point, and a byte from 0xF8 on is taken alone.
C18_FallbackOnValidText ==
    \A j \in 0..(SegmentsLength(segments) - 1) :
        LET p == Offset(segments, j)
        IN  (IsManaged(segments, j) /\ (ValidUTF8(text) \/ text[p + 1] >= 248)) =>
                Len(SegmentsAt(segments, j)) = CodePointOrByte(text, p)

\* The lines of a source: the pieces between its line feeds, the last one
\* with or without a line feed after it.
RECURSIVE LinesOf(_)
LinesOf(data) ==
    IF data = <<>> THEN <<>>
    ELSE IF \E i \in 1..Len(data) : data[i] = 10
    THEN LET i == CHOOSE k \in 1..Len(data) :
                     data[k] = 10 /\ \A j \in 1..(k - 1) : data[j] # 10
         IN  <<SubSeq(data, 1, i - 1)>> \o LinesOf(SubSeq(data, i + 1, Len(data)))
    ELSE <<data>>

\* The line without the carriage returns at its end.
RECURSIVE Stripped(_)
Stripped(line) ==
    IF line # <<>> /\ line[Len(line)] = 13
    THEN Stripped(SubSeq(line, 1, Len(line) - 1))
    ELSE line

\* The lines of a source that are to give an entry, in input order.
RECURSIVE EntryLines(_)
EntryLines(lines) ==
    IF lines = <<>> THEN <<>>
    ELSE LET line == Stripped(Head(lines))
         IN  IF line = <<>> \/ line[1] = 35 THEN EntryLines(Tail(lines))
             ELSE <<line>> \o EntryLines(Tail(lines))

HasTab(line) == \E i \in 1..Len(line) : line[i] = 9

FirstTab(line) == CHOOSE i \in 1..Len(line) : line[i] = 9 /\ \A j \in 1..(i - 1) : line[j] # 9

\* The text before the first tab, the whole line when it has none.
KeyText(line) ==
    IF HasTab(line) THEN SubSeq(line, 1, FirstTab(line) - 1) ELSE line

\* The text after the first tab.
RestText(line) == SubSeq(line, FirstTab(line) + 1, Len(line))

\* Whitespace that is not a tab.
IsBlank(b) == b \in {10, 11, 12, 13, 32}

\* The tokens of s: its longest pieces free of whitespace that is not a tab.
RECURSIVE Tokens(_)
Tokens(s) ==
    IF s = <<>> THEN <<>>
    ELSE IF IsBlank(s[1]) THEN Tokens(Tail(s))
    ELSE LET n == CHOOSE k \in 1..Len(s) :
                     /\ \A j \in 1..k : ~IsBlank(s[j])
                     /\ k = Len(s) \/ IsBlank(s[k + 1])
         IN  <<SubSeq(s, 1, n)>> \o Tokens(SubSeq(s, n + 1, Len(s)))

\* The value list the line is to give.
ValueTokens(line) == IF HasTab(line) THEN Tokens(RestText(line)) ELSE <<>>

\* The entry e is the one the line is to give.
EntryOfLine(e, line) ==
    /\ Key(e) = KeyText(line)
    /\ Values(e) = ValueTokens(line)
    /\ ValueTokens(line) # <<>> => GetDefault(e) = ValueTokens(line)[1]

\* ParseLexiconFromFile has returned from a source read to its end.
ParsedAll == pc = "parsed" /\ reader.file = "ok" /\ reader.ending = "EOF"

(***************************************************************************)
(* C19.  ParseLexiconFromReader rejects no line: of a source read to its   *)
(* end, the lines that are empty or begin with '#' once the trailing       *)
(* carriage returns and line feed are stripped give no entry, and every    *)
(* other line, a last line without a line feed included, gives one entry,  *)
(* in input order, with the text before the first tab as its key, no       *)
(* value when the line has no tab, and else the text after the first tab   *)
(* split on whitespace other than the tab as its value list, the first     *)
(* token the default value.                                                *)
(***************************************************************************)
C19_ParseLines ==
    ParsedAll =>
        LET lines == EntryLines(LinesOf(reader.data))
        IN  /\ err = "nil"
            /\ Len(entries) = Len(lines)
            /\ \A i \in 1..Len(lines) : EntryOfLine(entries[i], lines[i])

\* What the code does keep: the same for sources in which no line has a
\* second tab.
C19_ParseLinesOneTab ==
    ParsedAll =>
        LET lines == EntryLines(LinesOf(reader.data))
        IN  (\A i \in 1..Len(lines) : (HasTab(lines[i]) => ~HasTab(RestText(lines[i])))) =>
                /\ err = "nil"
                /\ Len(entries) = Len(lines)
                /\ \A i \in 1..Len(lines) : EntryOfLine(entries[i], lines[i])

\* The keys of a sequence of entries.
KeysOf(es) == {Key(es[i]) : i \in 1..Len(es)}

\* The members of the group g, in list order, whose MatchAllPrefixes(w)
\* holds the key k.
MembersMatching(g, w, k) ==
    {i \in 1..Len(g.dicts) : k \in KeysOf(TextDictMatchAllPrefixes(g.dicts[i], w))}

\* es is in the order of key length descending, then key ascending, and
\* holds no key twice.
LongestFirst(es) ==
    \A i, j \in 1..Len(es) :
        i < j => \/ KeyLength(es[i]) > KeyLength(es[j])
                 \/ /\ KeyLength(es[i]) = KeyLength(es[j])
                    /\ StrLess(Key(es[i]), Key(es[j]))

\* The keys of matches are those of the members' results, longest first.
UnionLongestFirst ==
    /\ KeysOf(matches) =
           UNION {KeysOf(TextDictMatchAllPrefixes(dict.dicts[i], word)) :
                     i \in 1..Len(dict.dicts)}
    /\ LongestFirst(matches)

(***************************************************************************)
(* C20.  DictGroup.MatchAllPrefixes(w) returns the union of the members'   *)
(* MatchAllPrefixes(w), by key length descending and then key ascending,   *)
(* each key once, and for a key that several members match the entry of    *)
(* the earliest of them in list order.                                     *)
(***************************************************************************)
C20_GroupMatchAll ==
    (op = "MatchAllPrefixes" /\ dict.type = "DictGroup") =>
        /\ UnionLongestFirst
        /\ \A i \in 1..Len(matches) :
              matches[i] = StoredEntry(
                  dict.dicts[SetMin(MembersMatching(dict, word, Key(matches[i])))],
                  Key(matches[i]))

\* What the code does keep: the keys, their order, and that every entry is
\* the entry of some member that matches its key.
C20_GroupMatchAllKeys ==
    (op = "MatchAllPrefixes" /\ dict.type = "DictGroup") =>
        /\ UnionLongestFirst
        /\ \A i \in 1..Len(matches) :
              \E m \in MembersMatching(dict, word, Key(matches[i])) :
                  matches[i] = StoredEntry(dict.dicts[m], Key(matches[i]))

\* The entries of the sequence es.
EntriesOf(es) == {es[i] : i \in 1..Len(es)}

\* es is in the order of key length ascending and holds no key length twice.
ShortestFirst(es) ==
    \A i, j \in 1..Len(es) : i < j => KeyLength(es[i]) < KeyLength(es[j])

\* MatchAllPrefixes has returned from a TextDict over a sorted
\* duplicate-free Lexicon.
TextDictMatchedAll ==
    op = "MatchAllPrefixes" /\ dict.type = "TextDict" /\ SortedUnique(dict)

WithKey(l, k) == SelectSeq(l, LAMBDA e : Key(e) = k)

(***************************************************************************)
(* C22.  Lexicon.Sort() is stable: the entries of one key keep the order   *)
(* they had before the sort, the first added staying first.                *)
(***************************************************************************)
C22_SortStable ==
    [][op' = "Sort" =>
          \A k \in KeysOf(entries) : WithKey(entries', k) = WithKey(entries, k)]_vars

(***************************************************************************)
(* SpecEntry: one dictionary entry and its caller.  The caller makes an    *)
(* entry with one of the constructors, reads it, compares it with other    *)
(* entries, and writes to the []string it holds: the one it handed to      *)
(* NewStrMultiValueDictEntry or the one Values() returned.  A Go slice     *)
(* is a view of a backing array: a write through one slice is seen through *)
(* every slice of the same array.                                          *)
(***************************************************************************)
MaxValues == 2     \* most values of one entry

EntryKeys == {<<97>>, <<98>>}

ValueStrings == {<<65>>, <<66>>}

ValueSlices == UNION {[1..n -> ValueStrings] : n \in 0..MaxValues}

EntriesMade ==
    {NewNoValueDictEntry(k) : k \in EntryKeys}
        \cup {NewStrSingleValueDictEntry(k, v) : k \in EntryKeys, v \in ValueStrings}
        \cup {NewStrMultiValueDictEntry(k, vs) : k \in EntryKeys, vs \in ValueSlices}

\* e.LessThan(o), the same in the three entry types
LessThan(e, o) == StrLess(e.key, Key(o))

\* e.Equals(o), the same in the three entry types
Equals(e, o) == e.key = Key(o)

\* The slice e.Values() returns: a new one for the NoValue and the
\* StrSingleValue entry, the entry's own for the StrMultiValue entry.
ValuesSlice(e) ==
    [data |-> Values(e), shared |-> e.type = "StrMultiValue"]

\* The entry e after element i of its values is overwritten with v.
WriteThrough(e, i, v) == [e EXCEPT !.values[i + 1] = v]

InitEntry ==
    /\ result = Nil
    /\ held = NoSlice
    /\ other = Nil
    /\ added = <<>>
    /\ LengthIdle
    /\ IterIdle
    /\ writer = <<>>
    /\ ReplaceIdle
    /\ op = "new"
    /\ converted = <<>>
    /\ count = 0
    /\ flag = FALSE
    /\ dict = NilDict
    /\ word = <<>>
    /\ entries = <<>>
    /\ reader = NoReader
    /\ err = "nil"
    /\ dupkey = <<>>
    /\ matches = <<>>
    /\ SegIdle
    /\ ConvIdle
    /\ ConcIdle

entryFrame == <<dict, word, segVars, convVars, entries, reader, err, dupkey,
                matches, calls, added, input, length, it, visited, writer,
                fromStr, toStr>>

\* NewNoValueDictEntry(key)
EntryNewNoValue(key) ==
    /\ result' = NewNoValueDictEntry(key)
    /\ held' = NoSlice
    /\ op' = "NewNoValueDictEntry"
    /\ other' = Nil /\ converted' = <<>> /\ count' = 0 /\ flag' = FALSE
    /\ UNCHANGED entryFrame

\* NewStrSingleValueDictEntry(key, value)
EntryNewSingle(key, value) ==
    /\ result' = NewStrSingleValueDictEntry(key, value)
    /\ held' = NoSlice
    /\ op' = "NewStrSingleValueDictEntry"
    /\ other' = Nil /\ converted' = <<>> /\ count' = 0 /\ flag' = FALSE
    /\ UNCHANGED entryFrame

\* vs := []string{...}; NewStrMultiValueDictEntry(key, vs): the entry keeps
\* vs itself unless it is empty.
EntryNewMulti(key, vs) ==
    /\ result' = NewStrMultiValueDictEntry(key, vs)
    /\ held' = [data |-> vs, shared |-> Len(vs) # 0]
    /\ op' = "NewStrMultiValueDictEntry"
    /\ other' = Nil /\ converted' = <<>> /\ count' = 0 /\ flag' = FALSE
    /\ UNCHANGED entryFrame

\* e.Key()
EntryKey ==
    /\ result # Nil
    /\ converted' = Key(result)
    /\ op' = "Key"
    /\ count' = 0 /\ flag' = FALSE
    /\ UNCHANGED <<result, held, other, entryFrame>>

\* vs = e.Values()
EntryValues ==
    /\ result # Nil
    /\ held' = ValuesSlice(result)
    /\ op' = "Values"
    /\ converted' = <<>> /\ count' = 0 /\ flag' = FALSE
    /\ UNCHANGED <<result, other, entryFrame>>

\* e.NumValues()
EntryNumValues ==
    /\ result # Nil
    /\ count' = NumValues(result)
    /\ op' = "NumValues"
    /\ converted' = <<>> /\ flag' = FALSE
    /\ UNCHANGED <<result, held, other, entryFrame>>

\* e.GetDefault()
EntryGetDefault ==
    /\ result # Nil
    /\ converted' = GetDefault(result)
    /\ op' = "GetDefault"
    /\ count' = 0 /\ flag' = FALSE
    /\ UNCHANGED <<result, held, other, entryFrame>>

\* e.Equals(o)
EntryEquals(o) ==
    /\ result # Nil
    /\ other' = o
    /\ flag' = Equals(result, o)
    /\ op' = "Equals"
    /\ converted' = <<>> /\ count' = 0
    /\ UNCHANGED <<result, held, entryFrame>>

\* e.LessThan(o)
EntryLessThan(o) ==
    /\ result # Nil
    /\ other' = o
    /\ flag' = LessThan(result, o)
    /\ op' = "LessThan"
    /\ converted' = <<>> /\ count' = 0
    /\ UNCHANGED <<result, held, entryFrame>>

\* vs[i] = v, by the caller
SliceWrite(i, v) ==
    /\ i < Len(held.data)
    /\ held' = [held EXCEPT !.data[i + 1] = v]
    /\ result' = IF held.shared THEN WriteThrough(result, i, v) ELSE result
    /\ op' = "write"
    /\ converted' = <<>> /\ count' = 0 /\ flag' = FALSE
    /\ UNCHANGED <<other, entryFrame>>

NextEntry ==
    \/ \E key \in EntryKeys : EntryNewNoValue(key)
    \/ \E key \in EntryKeys, value \in ValueStrings : EntryNewSingle(key, value)
    \/ \E key \in EntryKeys, vs \in ValueSlices : EntryNewMulti(key, vs)
    \/ EntryKey
    \/ EntryValues
    \/ EntryNumValues
    \/ EntryGetDefault
    \/ \E o \in EntriesMade : EntryEquals(o)
    \/ \E o \in EntriesMade : EntryLessThan(o)
    \/ \E i \in 0..(MaxValues - 1), v \in ValueStrings : SliceWrite(i, v)

SpecEntry == InitEntry /\ [][NextEntry]_vars

\* The step makes a new entry.
Constructs ==
    op' \in {"NewNoValueDictEntry", "NewStrSingleValueDictEntry",
             "NewStrMultiValueDictEntry"}

\* What the four readers return of the entry e.
Reads(e) == <<Key(e), Values(e), NumValues(e), GetDefault(e)>>

\* Equals and LessThan look at the keys only.
ComparesKeys ==
    /\ op = "Equals" => flag = (Key(result) = Key(other))
    /\ op = "LessThan" => flag = StrLess(Key(result), Key(other))

(***************************************************************************)
(* C23.  An entry is immutable once made: Key(), Values(), NumValues() and *)
(* GetDefault() return the same in every later state, whatever the caller  *)
(* does with the slice it gave the constructor or with the slice Values()  *)
(* returned; Equals and LessThan depend on the keys only.                  *)
(***************************************************************************)
C23_EntryImmutable ==
    /\ [][(result # Nil /\ ~Constructs) => Reads(result') = Reads(result)]_vars
    /\ []ComparesKeys

\* What the code does keep: the key and the number of values never change,
\* the NoValue and the StrSingleValue entry never change, and the
\* comparisons look at the keys only.
C23_KeyImmutable ==
    /\ [][(result # Nil /\ ~Constructs) =>
              /\ Key(result') = Key(result)
              /\ NumValues(result') = NumValues(result)
              /\ result.type # "StrMultiValue" => result' = result]_vars
    /\ []ComparesKeys

(***************************************************************************)
(* SpecMatch: the two longest-prefix searches side by side.  A segmenter   *)
(* over a dictionary d, a text and a cursor are drawn; findLongestMatch    *)
(* is called as Segment calls it, with d.KeyMaxLength(), and d.MatchPrefix *)
(* is called on the rest of the text.                                      *)
(***************************************************************************)
MatchDicts ==
    TextDictsOver(DictKeys, 1) \cup {NewDictGroup(ms) : ms \in MemberSeqs(2)}

InitMatch ==
    /\ segmenter \in {NewMaxMatchSegmentation(d) : d \in MatchDicts}
    /\ text \in Words
    /\ position \in 0..Len(text)
    /\ segments = NewSegments
    /\ pc = "idle"
    /\ DictIdle
    /\ ConvIdle
    /\ AuxIdle

matchFrame == <<dict, word, converted, segVars, convVars, auxVars>>

\* s.findLongestMatch(text, position, s.dict.KeyMaxLength())
FindLongestMatch ==
    /\ result' = findLongestMatch(segmenter.dict, text, position,
                                  DictKeyMaxLength(segmenter.dict))
    /\ op' = "findLongestMatch"
    /\ UNCHANGED matchFrame

\* s.dict.MatchPrefix(text[position:])
MatchPrefixRest ==
    /\ result' = DictMatchPrefix(segmenter.dict, Drop(text, position))
    /\ op' = "MatchPrefix"
    /\ UNCHANGED matchFrame

NextMatch == FindLongestMatch \/ MatchPrefixRest

SpecMatch == InitMatch /\ [][NextMatch]_vars

\* Two lookups answer alike: both nil, or entries of one key and one
\* default value.
SameAnswer(a, b) ==
    /\ (a = Nil) = (b = Nil)
    /\ a # Nil => Key(a) = Key(b) /\ GetDefault(a) = GetDefault(b)

(***************************************************************************)
(* C24.  For every text, cursor p and dictionary d (a TextDict over a      *)
(* sorted duplicate-free Lexicon or a DictGroup of such),                  *)
(* findLongestMatch(text, p, d.KeyMaxLength()) returns an entry of the     *)
(* same key and default value as d.MatchPrefix(text[p:]), and nil exactly  *)
(* when MatchPrefix returns nil.                                           *)
(***************************************************************************)
C24_SameAsMatchPrefix ==
    /\ op = "findLongestMatch" =>
           SameAnswer(result, DictMatchPrefix(segmenter.dict, Drop(text, position)))
    /\ op = "MatchPrefix" =>
           SameAnswer(findLongestMatch(segmenter.dict, text, position,
                                       DictKeyMaxLength(segmenter.dict)),
                      result)

\* findLongestMatch has returned, past the start of the text, the longer
\* key of the second member of a group whose first member holds a shorter
\* prefix and the empty key.
C24_Witness ==
    /\ op = "findLongestMatch"
    /\ segmenter.dict.type = "DictGroup"
    /\ position = 1
    /\ result # Nil
    /\ KeyLength(result) = 2
    /\ HasKey(segmenter.dict.dicts[2].lexicon, Key(result))
    /\ ~HasKey(segmenter.dict.dicts[1].lexicon, Key(result))
    /\ HasKey(segmenter.dict.dicts[1].lexicon, <<>>)
    /\ HasKey(segmenter.dict.dicts[1].lexicon, <<97>>)
    /\ text[2] = 97

(***************************************************************************)
(* SpecSegments: a Segments value and the three callers that fill one.     *)
(* A caller of the package adds strings with AddManaged and AddUnmanaged   *)
(* in any order and reads the value with At, Length and ToString; added    *)
(* records its calls.  Segment fills a Segments value in its loop (the     *)
(* actions of SpecSeg) and Conversion.ConvertSegments fills one for each   *)
(* step of a chain (the actions of SpecChain).  AddUnmanaged takes a       *)
(* pointer to a string nobody writes afterwards, as in every call of the   *)
(* repository (&matchStr in Segment, &str in AddString).                   *)
(***************************************************************************)
AddStrings == {<<>>, <<98>>, <<97, 97>>}

SegmentsTexts == StringsOver({97, 128, 195}, MaxTextLen)

\* Segment is called on a text.
InitSegmenting ==
    /\ segmenter \in Segmenters
    /\ text \in SegmentsTexts
    /\ position = 0
    /\ segments = NewSegments
    /\ pc = "call"
    /\ DictIdle
    /\ ConvIdle
    /\ AuxIdle

InitSegments ==
    /\ segments = NewSegments
    /\ added = <<>>
    /\ pc = "caller"
    /\ segmenter = NoSeg
    /\ text = <<>>
    /\ position = 0
    /\ DictIdle
    /\ ConvIdle
    /\ LexIdle
    /\ QueryIdle
    /\ ConcIdle
    /\ EntryIdle
    /\ LengthIdle
    /\ IterIdle
    /\ writer = <<>>
    /\ ReplaceIdle

segmentsFrame == <<dict, word, result, segmenter, text, position, pc, convVars,
                   lexVars, matches, calls, held, other, input, length, it,
                   visited, writer, fromStr, toStr>>

\* segments.AddManaged(str)
SegmentsAddManaged(str) ==
    /\ pc = "caller"
    /\ Len(added) < MaxAdds
    /\ segments' = AddManaged(segments, str)
    /\ added' = Append(added, [str |-> str, managed |-> TRUE])
    /\ op' = "AddManaged"
    /\ converted' = <<>> /\ count' = 0
    /\ UNCHANGED segmentsFrame

\* segments.AddUnmanaged(&str)
SegmentsAddUnmanaged(str) ==
    /\ pc = "caller"
    /\ Len(added) < MaxAdds
    /\ segments' = AddUnmanaged(segments, str)
    /\ added' = Append(added, [str |-> str, managed |-> FALSE])
    /\ op' = "AddUnmanaged"
    /\ converted' = <<>> /\ count' = 0
    /\ UNCHANGED segmentsFrame

\* segments.At(pos)
SegmentsAtPos(pos) ==
    /\ pc = "caller"
    /\ converted' = SegmentsAt(segments, pos)
    /\ count' = pos
    /\ op' = "At"
    /\ UNCHANGED <<segments, added, segmentsFrame>>

\* segments.Length()
SegmentsLen ==
    /\ pc = "caller"
    /\ count' = SegmentsLength(segments)
    /\ op' = "Length"
    /\ converted' = <<>>
    /\ UNCHANGED <<segments, added, segmentsFrame>>

\* segments.ToString()
SegmentsString ==
    /\ pc = "caller"
    /\ converted' = SegmentsToString(segments)
    /\ op' = "ToString"
    /\ count' = 0
    /\ UNCHANGED <<segments, added, segmentsFrame>>

NextSegments ==
    \/ \E str \in AddStrings : SegmentsAddManaged(str)
    \/ \E str \in AddStrings : SegmentsAddUnmanaged(str)
    \/ \E pos \in (0 - 1)..(MaxAdds + 1) : SegmentsAtPos(pos)
    \/ SegmentsLen
    \/ SegmentsString
    \/ NextSeg
    \/ NextChain

SpecSegments ==
    /\ InitSegments \/ InitSegmenting \/ InitChain
    /\ [][NextSegments]_vars

\* The strings of the calls from call i (0-based) on, one after the other.
RECURSIVE AddedFrom(_, _)
AddedFrom(calls_, i) ==
    IF i < Len(calls_) THEN calls_[i + 1].str \o AddedFrom(calls_, i + 1)
    ELSE <<>>

\* The Segments value holds what the calls recorded in added gave it.
HoldsAdded ==
    /\ SegmentsLength(segments) = Len(added)
    /\ Len(segments.managed) + Len(segments.unmanaged) = SegmentsLength(segments)
    /\ \A i \in 0..(SegmentsLength(segments) - 1) :
          /\ SegmentsAt(segments, i) = added[i + 1].str
          /\ IsManaged(segments, i) = added[i + 1].managed
    /\ SegmentsToString(segments) = AddedFrom(added, 0)
    /\ \A i \in ((0 - 2)..(0 - 1)) \cup (Len(added)..(Len(added) + 2)) :
          SegmentsAt(segments, i) = <<>>

\* What At, Length and ToString returned is what the calls gave.
ReadsAdded ==
    /\ op = "Length" => count = Len(added)
    /\ op = "ToString" => converted = AddedFrom(added, 0)
    /\ op = "At" =>
          converted = IF count >= 0 /\ count < Len(added)
                      THEN added[count + 1].str ELSE <<>>

\* In the Segments value Segment is filling, a segment is a reference
\* exactly when a key of the dictionary matches at its offset; the
\* CharactersSegmentation has no dictionary.
HitsAreReferences ==
    \A j \in 0..(SegmentsLength(segments) - 1) :
        IsManaged(segments, j)
            = (\/ segmenter.type = "chars"
               \/ findLongestMatch(segmenter.dict, text, Offset(segments, j),
                                   DictKeyMaxLength(segmenter.dict)) = Nil)

\* The Segments value a conversion step returned holds owned segments only.
StepsAreOwned ==
    \A j \in 0..(SegmentsLength(segments) - 1) : IsManaged(segments, j)

(***************************************************************************)
(* C25.  After any interleaved sequence of AddManaged / AddUnmanaged       *)
(* calls, Length() is the number of calls, len(managed) + len(unmanaged)   *)
(* is Length(), At(i) is the string of call i and its origin the one it    *)
(* was added with, for good, ToString() is At(0)..At(Length()-1) joined,   *)
(* and At outside the range is the empty string.  Segment's segments are   *)
(* references exactly for the dictionary hits and owned for the fallbacks; *)
(* the segments of a conversion step are all owned.                        *)
(***************************************************************************)
C25_Segments ==
    /\ [](/\ pc = "caller" => HoldsAdded /\ ReadsAdded
          /\ pc \in {"loop", "done"} /\ segmenter.type # "none" => HitsAreReferences
          /\ pc = "chain" /\ stepIdx >= 1 => StepsAreOwned)
    /\ [][\A i \in 0..(SegmentsLength(segments) - 1) :
             pc' = pc /\ pc \in {"caller", "loop"} =>
                 /\ i < SegmentsLength(segments')
                 /\ IsManaged(segments', i) = IsManaged(segments, i)
                 /\ SegmentsAt(segments', i) = SegmentsAt(segments, i)]_vars

\* The caller has added owned, reference, owned, reference and read the
\* third segment.
C25_Witness ==
    /\ pc = "caller"
    /\ op = "At"
    /\ count = 2
    /\ Len(added) = 4
    /\ added[1].managed /\ ~added[2].managed /\ added[3].managed /\ ~added[4].managed
    /\ converted = <<97, 97>>
    /\ added[2].str = <<98>>

\* Segment has returned a reference after an owned segment.
C25_WitnessSegment ==
    /\ pc = "done"
    /\ segmenter.type = "mmseg"
    /\ SegmentsLength(segments) = 2
    /\ IsManaged(segments, 0)
    /\ ~IsManaged(segments, 1)

(***************************************************************************)
(* SpecLength: one call of SimpleConverter.ConvertWithLength(input,        *)
(* length).  A SimpleConverter holds a Converter with a                    *)
(* MaxMatchSegmentation (createSegmentation builds no other) and a chain;  *)
(* the call cuts the input and goes on as Converter.Convert does.          *)
(***************************************************************************)
LengthInputs == StringsOver({97, 128, 195}, MaxConvLen)

Lengths == (0 - 1)..(MaxConvLen + 1)

InitLength ==
    /\ segmenter \in {NewMaxMatchSegmentation(d) : d \in ConvDicts}
    /\ chain \in Chains
    /\ input \in LengthInputs
    /\ length \in Lengths
    /\ text = <<>>
    /\ position = 0
    /\ segments = NewSegments
    /\ pc = "withLength"
    /\ stepIdx = 0
    /\ segmented = NewSegments
    /\ output = <<>>
    /\ DictIdle
    /\ LexIdle
    /\ QueryIdle
    /\ ConcIdle
    /\ EntryIdle
    /\ added = <<>>
    /\ IterIdle
    /\ writer = <<>>
    /\ ReplaceIdle

\* The argument ConvertWithLength hands to Convert when length > 0.
CutInput(str, len) == IF len >= Len(str) THEN str ELSE Slice(str, 0, len)

\* ConvertWithLength up to the call of Convert.
ConvertWithLength ==
    /\ pc = "withLength"
    /\ IF length <= 0
       THEN /\ output' = <<>>
            /\ pc' = "returned"
            /\ text' = text
       ELSE /\ text' = CutInput(input, length)
            /\ pc' = "convert"
            /\ output' = output
    /\ UNCHANGED <<segmenter, position, segments, chain, stepIdx, segmented,
                   dictVars, auxVars>>

NextLength ==
    \/ ConvertWithLength
    \/ ConvertEnter
    \/ SegmentEnter
    \/ SegmentMatch
    \/ SegmentFallback
    \/ SegmentReturn
    \/ ChainEnter
    \/ ChainStep
    \/ ConvertReturn

SpecLength == InitLength /\ [][NextLength]_vars

\* The frame in which Convert run on the first min(length, len(input))
\* bytes of the input ends.
ConvertOfCut ==
    RunAlone(segmenter, chain, NewCall(Slice(input, 0, Min(length, Len(input)))))

(***************************************************************************)
(* C26.  For every input and every integer length,                         *)
(* ConvertWithLength(input, length) returns normally: "" when              *)
(* length <= 0, and else Convert of the first min(length, len(input))      *)
(* bytes of the input, also when the cut falls inside a multi-byte UTF-8   *)
(* character.                                                              *)
(***************************************************************************)
C26_ConvertWithLength ==
    /\ pc # "panic"
    /\ pc = "returned" =>
          output = IF length <= 0 THEN <<>> ELSE ConvertOfCut.output

\* What the code does keep: the call ends as Convert of the cut input ends,
\* with its result or with its panic.
C26_AsConvertOfCut ==
    /\ pc = "panic" => length > 0 /\ ConvertOfCut.pc = "panic"
    /\ pc = "returned" =>
          output = IF length <= 0 THEN <<>> ELSE ConvertOfCut.output

(***************************************************************************)
(* SpecIter: one loop "it := x.Iterator(); for it.Next() { it.Value() }"   *)
(* over a Lexicon or over a Segments value.  pc is "new" before the call   *)
(* of Iterator, "test" before a call of Next, "body" when Next has         *)
(* returned true and "end" when it has returned false; visited records     *)
(* the calls of Value.                                                     *)
(***************************************************************************)
IterLexicons == UNION {[1..n -> LexEntries] : n \in 0..MaxLexicon}

IterSegments == UNION {SegmentsBuilt(n) : n \in 0..MaxSegs}

InitIter ==
    /\ \/ entries \in IterLexicons /\ segments = NewSegments
       \/ entries = <<>> /\ segments \in IterSegments
    /\ it = NoIter
    /\ visited = <<>>
    /\ pc = "new"
    /\ segmenter = NoSeg
    /\ text = <<>>
    /\ position = 0
    /\ reader = NoReader
    /\ err = "nil"
    /\ flag = FALSE
    /\ dupkey = <<>>
    /\ DictIdle
    /\ ConvIdle
    /\ QueryIdle
    /\ ConcIdle
    /\ EntryIdle
    /\ added = <<>>
    /\ LengthIdle
    /\ writer = <<>>
    /\ ReplaceIdle

iterFrame == <<dictVars, segmenter, text, position, segments, convVars, lexVars,
               matches, count, calls, held, other, added, input, length, writer,
               fromStr, toStr>>

\* it := l.Iterator()
LexiconIterator ==
    /\ pc = "new"
    /\ it' = [kind |-> "lexicon", index |-> 0]
    /\ pc' = "test"
    /\ UNCHANGED <<visited, iterFrame>>

\* it.Next() of a LexiconIterator
LexiconNext ==
    /\ pc = "test"
    /\ it.kind = "lexicon"
    /\ it' = [it EXCEPT !.index = @ + 1]
    /\ pc' = IF it'.index < LexiconLen(entries) THEN "body" ELSE "end"
    /\ UNCHANGED <<visited, iterFrame>>

\* it.Value() of a LexiconIterator
LexiconValue ==
    /\ pc = "body"
    /\ it.kind = "lexicon"
    /\ visited' = Append(visited, [index |-> it.index,
                                   value |-> LexiconAt(entries, it.index)])
    /\ pc' = "test"
    /\ UNCHANGED <<it, iterFrame>>

\* it := s.Iterator()
SegmentsIterator ==
    /\ pc = "new"
    /\ it' = [kind |-> "segments", index |-> 0 - 1]
    /\ pc' = "test"
    /\ UNCHANGED <<visited, iterFrame>>

\* it.Next() of a SegmentsIterator
SegmentsNext ==
    /\ pc = "test"
    /\ it.kind = "segments"
    /\ it' = [it EXCEPT !.index = @ + 1]
    /\ pc' = IF it'.index < SegmentsLength(segments) THEN "body" ELSE "end"
    /\ UNCHANGED <<visited, iterFrame>>

\* it.Value() of a SegmentsIterator
SegmentsValue ==
    /\ pc = "body"
    /\ it.kind = "segments"
    /\ visited' = Append(visited, [index |-> it.index,
                                   value |-> SegmentsAt(segments, it.index)])
    /\ pc' = "test"
    /\ UNCHANGED <<it, iterFrame>>

NextIter ==
    \/ LexiconIterator
    \/ LexiconNext
    \/ LexiconValue
    \/ SegmentsIterator
    \/ SegmentsNext
    \/ SegmentsValue

SpecIter == InitIter /\ [][NextIter]_vars

\* The number of elements of the collection under iteration.
IterLen ==
    IF it.kind = "lexicon" THEN LexiconLen(entries) ELSE SegmentsLength(segments)

\* Element i of the collection under iteration.
IterAt(i) ==
    IF it.kind = "lexicon" THEN entries[i + 1] ELSE SegmentsAt(segments, i)

\* Value() was called on the indexes from..Len()-1, once each and in this
\* order, and returned the elements there.
VisitedFrom(from_) ==
    /\ Len(visited) = IF IterLen > from_ THEN IterLen - from_ ELSE 0
    /\ \A k \in 1..Len(visited) :
          /\ visited[k].index = from_ + k - 1
          /\ visited[k].value = IterAt(from_ + k - 1)

\* No call of Value() was on an index out of range.
InRange == \A k \in 1..Len(visited) : visited[k].index \in 0..(IterLen - 1)

(***************************************************************************)
(* C27.  The loop "it := l.Iterator(); for it.Next() { it.Value() }" over  *)
(* a Lexicon visits every entry once, in the order of the indexes          *)
(* 0..Len()-1, and never calls Value() on an index out of range; so does   *)
(* the same loop over a Segments value.                                    *)
(***************************************************************************)
C27_VisitsAll ==
    /\ InRange
    /\ pc = "end" => VisitedFrom(0)

\* What the code does keep: the loop over a Segments value visits every
\* segment; the loop over a Lexicon visits the entries from index 1 on.
C27_VisitsAllButFirst ==
    /\ InRange
    /\ pc = "end" => VisitedFrom(IF it.kind = "lexicon" THEN 1 ELSE 0)

(***************************************************************************)
(* SpecSerial: a TextDict is written with SerializeToWriter into a buffer  *)
(* in memory and the buffer is read back with ParseLexiconFromReader (the  *)
(* loop of SpecParse).                                                     *)
(***************************************************************************)
\* strings.Join(values, "\t") from value i on
RECURSIVE JoinFrom(_, _)
JoinFrom(values, i) ==
    IF i >= Len(values) THEN <<>>
    ELSE IF i = Len(values) - 1 THEN values[i + 1]
    ELSE values[i + 1] \o <<9>> \o JoinFrom(values, i + 1)

\* A slip in StrMultiValueDictEntry.ToString: the first value only.
EntryToStringFirstValue(e) ==
    CASE e.type = "NoValue"        -> e.key
      [] e.type = "StrSingleValue" -> e.key \o <<9>> \o e.value
      [] e.type = "StrMultiValue"  ->
            e.key \o <<9>> \o (IF Len(e.values) > 0 THEN e.values[1] ELSE <<>>)

\* entry.ToString() of the three entry types
EntryToString(e) ==
    CASE e.type = "NoValue"        -> e.key
      [] e.type = "StrSingleValue" -> e.key \o <<9>> \o e.value
      [] e.type = "StrMultiValue"  -> e.key \o <<9>> \o JoinFrom(e.values, 0)

\* The loop of SerializeToWriter from entry i on: a line for each entry.
RECURSIVE SerializeFrom(_, _)
SerializeFrom(l, i) ==
    IF i < LexiconLen(l)
    THEN EntryToString(LexiconAt(l, i)) \o <<10>> \o SerializeFrom(l, i + 1)
    ELSE <<>>

\* a; a -> B; b -> [X, Y]; "a b" with an empty value list; and entries the
\* text format cannot hold: #a -> B; a -> "B C"; the empty key.
SerialEntries ==
    {NewNoValueDictEntry(<<97>>),
     NewStrSingleValueDictEntry(<<97>>, <<66>>),
     NewStrMultiValueDictEntry(<<98>>, << <<88>>, <<89>> >>),
     NewStrMultiValueDictEntry(<<97, 32, 98>>, <<>>),
     NewStrSingleValueDictEntry(<<35, 97>>, <<66>>),
     NewStrSingleValueDictEntry(<<97>>, <<66, 32, 67>>),
     NewNoValueDictEntry(<<>>)}

SerialLexicons == UNION {[1..n -> SerialEntries] : n \in 0..MaxLexicon}

InitSerial ==
    /\ dict \in {NewTextDict(l) : l \in SerialLexicons}
    /\ writer = <<>>
    /\ entries = <<>>
    /\ reader = NoReader
    /\ err = "nil"
    /\ pc = "serialize"
    /\ flag = FALSE
    /\ dupkey = <<>>
    /\ word = <<>>
    /\ op = "idle"
    /\ result = Nil
    /\ converted = <<>>
    /\ segmenter = NoSeg
    /\ text = <<>>
    /\ position = 0
    /\ segments = NewSegments
    /\ ConvIdle
    /\ QueryIdle
    /\ ConcIdle
    /\ EntryIdle
    /\ added = <<>>
    /\ LengthIdle
    /\ IterIdle
    /\ ReplaceIdle

serialFrame == <<dict, word, op, result, converted, segmenter, text, position,
                 segments, convVars, flag, dupkey, matches, count, calls, held,
                 other, added, input, length, it, visited, fromStr, toStr>>

\* dict.SerializeToWriter(&buffer)
SerializeToWriter ==
    /\ pc = "serialize"
    /\ writer' = SerializeFrom(dict.lexicon, 0)
    /\ err' = "nil"
    /\ pc' = "serialized"
    /\ UNCHANGED <<entries, reader, serialFrame>>

\* ParseLexiconFromReader(&buffer) up to its loop
ParseWritten ==
    /\ pc = "serialized"
    /\ reader' = [data |-> writer, pos |-> 0, ending |-> "EOF", file |-> "ok"]
    /\ entries' = <<>>
    /\ pc' = "read"
    /\ UNCHANGED <<writer, err, serialFrame>>

NextSerial == SerializeToWriter \/ ParseWritten \/ ReadLine

SpecSerial == InitSerial /\ [][NextSerial]_vars

\* The string s holds a byte of the set B.
HasByte(s, B) == \E i \in 1..Len(s) : s[i] \in B

\* The key is not empty, holds no tab or line break and does not begin
\* with '#'; the values are not empty and hold no whitespace.
Writable(e) ==
    /\ Key(e) # <<>>
    /\ ~HasByte(Key(e), {9, 10, 13})
    /\ ~HasPrefixHash(Key(e))
    /\ \A i \in 1..NumValues(e) :
          Values(e)[i] # <<>> /\ ~HasByte(Values(e)[i], {9, 10, 11, 12, 13, 32})

(***************************************************************************)
(* C28.  For a TextDict whose keys are non-empty, without tab or line      *)
(* break and not beginning with '#', and whose values are non-empty and    *)
(* whitespace-free, parsing the output of SerializeToWriter with           *)
(* ParseLexiconFromReader gives a Lexicon of as many entries in the same   *)
(* order, each with the same key and the same value list, for entries of   *)
(* no, one and many values.                                                *)
(***************************************************************************)
C28_RoundTrip ==
    (pc = "parsed" /\ \A i \in 1..Len(dict.lexicon) : Writable(dict.lexicon[i])) =>
        /\ err = "nil"
        /\ LexiconLen(entries) = LexiconLen(dict.lexicon)
        /\ \A i \in 1..Len(entries) :
              /\ Key(entries[i]) = Key(dict.lexicon[i])
              /\ Values(entries[i]) = Values(dict.lexicon[i])

\* Entries of two, of no and of one value, in this order, have come back.
C28_Witness ==
    /\ pc = "parsed"
    /\ \A i \in 1..Len(dict.lexicon) : Writable(dict.lexicon[i])
    /\ Len(entries) = 3
    /\ NumValues(dict.lexicon[1]) = 2
    /\ dict.lexicon[2] = NewStrMultiValueDictEntry(<<97, 32, 98>>, <<>>)
    /\ entries[2] = NewNoValueDictEntry(<<97, 32, 98>>)
    /\ NumValues(dict.lexicon[3]) = 1

(***************************************************************************)
(* SpecUtf8: the character length functions of the utf8 package, called    *)
(* on a string and a byte index.                                           *)
(***************************************************************************)
\* 'a', the continuation bytes 0x80 and 0x90, and the lead bytes of
\* U+00C0 (C3 80), U+4000 (E4 80 80) and U+10000 (F0 90 80 80).
Utf8Bytes == {97, 128, 144, 195, 228, 240}

Utf8Strings == StringsOver(Utf8Bytes, MaxTextLen)

\* utf8.NextCharLength(s, index)
NextCharLength(s, index) ==
    IF index >= Len(s) THEN 0
    ELSE LET c == s[index + 1]
         IN  CASE c < 128 -> 1
               [] c >= 128 /\ c < 224 -> 2
               [] c >= 224 /\ c < 240 -> 3
               [] c >= 240 /\ c < 248 -> 4
               [] c >= 248 /\ c < 252 -> 5
               [] c >= 252 /\ c < 254 -> 6
               [] OTHER -> 0

\* The loop of PrevCharLength from the candidate length on.
RECURSIVE PrevCharLengthFrom(_, _, _)
PrevCharLengthFrom(s, index, len) ==
    IF len <= 6 /\ index - len >= 0
    THEN IF NextCharLength(s, index - len) = len THEN len
         ELSE PrevCharLengthFrom(s, index, len + 1)
    ELSE 0

\* utf8.PrevCharLength(s, index)
PrevCharLength(s, index) ==
    IF index <= 0 THEN 0 ELSE PrevCharLengthFrom(s, index, 1)

InitUtf8 ==
    /\ text \in Utf8Strings
    /\ position \in 0..Len(text)
    /\ count = 0
    /\ op = "idle"
    /\ dict = NewDictGroup(<<>>)
    /\ word = <<>>
    /\ result = Nil
    /\ converted = <<>>
    /\ segmenter = NoSeg
    /\ segments = NewSegments
    /\ pc = "idle"
    /\ ConvIdle
    /\ LexIdle
    /\ matches = <<>>
    /\ ConcIdle
    /\ ExtIdle

utf8Frame == <<dict, word, result, converted, segVars, convVars, lexVars,
               matches, calls, extVars>>

\* NextCharLength(text, position)
NextCharLengthCall ==
    /\ count' = NextCharLength(text, position)
    /\ op' = "NextCharLength"
    /\ UNCHANGED utf8Frame

\* PrevCharLength(text, position)
PrevCharLengthCall ==
    /\ count' = PrevCharLength(text, position)
    /\ op' = "PrevCharLength"
    /\ UNCHANGED utf8Frame

NextUtf8 == NextCharLengthCall \/ PrevCharLengthCall

SpecUtf8 == InitUtf8 /\ [][NextUtf8]_vars

\* The offsets at which the characters of the valid string txt start, from
\* the character start p on.
RECURSIVE CharStartsFrom(_, _)
CharStartsFrom(txt, p) ==
    IF p >= Len(txt) THEN {}
    ELSE {p} \cup CharStartsFrom(txt, p + LeadLen(txt[p + 1]))

\* PrevCharLength has returned the length of the character of at most n
\* bytes that ends before the index.
PrevIsNext(n) ==
    (op = "PrevCharLength" /\ ValidUTF8(text)) =>
        /\ \A i \in CharStartsFrom(text, 0) :
              (i + NextCharLength(text, i) = position /\ NextCharLength(text, i) <= n)
                  => count = NextCharLength(text, i)
        /\ position = 0 => count = 0

(***************************************************************************)
(* C29.  PrevCharLength(s, index) is the byte length of the character that *)
(* ends before index: for every valid UTF-8 string s and character start   *)
(* i, PrevCharLength(s, i + NextCharLength(s, i)) = NextCharLength(s, i),  *)
(* for characters of 1, 2, 3 and 4 bytes, and PrevCharLength(s, 0) = 0.    *)
(***************************************************************************)
C29_PrevIsNext == PrevIsNext(4)

\* What the code does keep: the same for the characters of 1 and 2 bytes.
C29_PrevIsNextUpTo2 == PrevIsNext(2)

(***************************************************************************)
(* SpecReplace: one call of utf8.ReplaceAll(s, from, to).  text is s,      *)
(* result the local variable of that name (a string here) and output the   *)
(* returned string.  The loop searches result from its start again after   *)
(* every replacement.  A result longer than MaxResultLen is not followed.  *)
(***************************************************************************)
MaxResultLen == 5     \* longest result the loop is followed to

\* The loop of findSubstring from offset i on.
RECURSIVE findSubstringFrom(_, _, _)
findSubstringFrom(s, substr, i) ==
    IF i <= Len(s) - Len(substr)
    THEN IF Slice(s, i, i + Len(substr)) = substr THEN i
         ELSE findSubstringFrom(s, substr, i + 1)
    ELSE 0 - 1

\* utf8.findSubstring(s, substr)
findSubstring(s, substr) == findSubstringFrom(s, substr, 0)

\* result[:idx] + to + result[idx+len(from):]
ReplaceAt(res, idx, old, new) ==
    Slice(res, 0, idx) \o new \o Slice(res, idx + Len(old), Len(res))

InitReplace ==
    /\ text \in Words
    /\ fromStr \in DictKeys
    /\ toStr \in DictKeys
    /\ result = <<>>
    /\ output = <<>>
    /\ pc = "call"
    /\ dict = NewDictGroup(<<>>)
    /\ word = <<>>
    /\ op = "idle"
    /\ converted = <<>>
    /\ segmenter = NoSeg
    /\ position = 0
    /\ segments = NewSegments
    /\ chain = <<>>
    /\ stepIdx = 0
    /\ segmented = NewSegments
    /\ LexIdle
    /\ QueryIdle
    /\ ConcIdle
    /\ EntryIdle
    /\ added = <<>>
    /\ LengthIdle
    /\ IterIdle
    /\ writer = <<>>

replaceFrame == <<dict, word, op, converted, segmenter, text, position,
                  segments, chain, stepIdx, segmented, lexVars, matches, count,
                  calls, held, other, added, input, length, it, visited, writer,
                  fromStr, toStr>>

\* ReplaceAll up to its loop: an empty from returns s.
ReplaceAllEnter ==
    /\ pc = "call"
    /\ IF fromStr = <<>>
       THEN /\ output' = text
            /\ pc' = "returned"
            /\ result' = result
       ELSE /\ result' = text
            /\ pc' = "loop"
            /\ output' = output
    /\ UNCHANGED replaceFrame

\* One iteration of the loop: the first occurrence is replaced, or the
\* loop breaks and result is returned.
ReplaceAllStep ==
    /\ pc = "loop"
    /\ LET idx == findSubstring(result, fromStr)
       IN  IF idx = 0 - 1
           THEN /\ output' = result
                /\ pc' = "returned"
                /\ result' = result
           ELSE /\ Len(ReplaceAt(result, idx, fromStr, toStr)) <= MaxResultLen
                /\ result' = ReplaceAt(result, idx, fromStr, toStr)
                /\ pc' = pc
                /\ output' = output
    /\ UNCHANGED replaceFrame

NextReplace == ReplaceAllEnter \/ ReplaceAllStep

SpecReplace == InitReplace /\ [][NextReplace]_vars

\* The call is one goroutine that runs on: a step that can be taken is
\* taken.
SpecReplaceFair == SpecReplace /\ WF_vars(NextReplace)

\* s with the occurrences of old, found from left to right without
\* overlap, replaced by new (strings.ReplaceAll for a non-empty old).
RECURSIVE Replaced(_, _, _)
Replaced(s, old, new) ==
    IF old = <<>> \/ Len(s) < Len(old) THEN s
    ELSE IF IsPrefix(old, s) THEN new \o Replaced(Drop(s, Len(old)), old, new)
    ELSE <<s[1]>> \o Replaced(Drop(s, 1), old, new)

\* old occurs in s.
Occurs(old, s) == findSubstring(s, old) # 0 - 1

(***************************************************************************)
(* C30.  ReplaceAll(s, from, to) terminates for every s, from and to, also *)
(* when to holds from, and returns s with all occurrences of from replaced *)
(* by to: s itself when from is empty or does not occur.                   *)
(***************************************************************************)
C30_ReplaceAll ==
    /\ <>(pc = "returned")
    /\ [](pc = "returned" => output = Replaced(text, fromStr, toStr))

\* What the code does keep: a call that returns returns s when from is
\* empty or does not occur in s, and else a string in which from does not
\* occur; when to holds from and from occurs in s the call does not return.
C30_ReturnsWithoutFrom ==
    /\ [](pc = "returned" =>
             /\ (fromStr = <<>> \/ ~Occurs(fromStr, text)) => output = text
             /\ fromStr # <<>> => ~Occurs(fromStr, output))
    /\ []((fromStr # <<>> /\ Occurs(fromStr, toStr) /\ Occurs(fromStr, text))
             => pc # "returned")

====
